---- MODULE Spec2Model ----
(***************************************************************************)
(* A model of the SpreadsheetLLM encoder (Spreadsheet_LLM_Encoder.py).     *)
(*                                                                         *)
(* Text is modelled as a sequence of one-character strings, so that        *)
(* formatting (get_column_letter, str(int), f"{col}{row}", "A1:B3") and    *)
(* parsing (split_cell_ref, column_index_from_string, int) are separate    *)
(* computations.  A dict is modelled as a sequence of [k, v] entries in    *)
(* insertion order.                                                        *)
(***************************************************************************)
EXTENDS Integers, Sequences, FiniteSets, TLC

\* ------------------------------------------------------------------ bounds
\* Largest number of rows of a generated sheet.
MaxRow == 3
\* Largest number of columns of a generated sheet.
MaxCol == 2
\* Largest number of sheets of a generated workbook.
MaxSheets == 2
\* Largest neighbourhood radius k tried (the smallest is -1).
MaxK == 1
\* Rows and columns of the grid the Range Merger's buckets are drawn from.
MergeRows == 2
MergeCols == 2
\* Largest token count given to calculate_compression_ratio on its own.
MaxTokens == 9
\* Number of columns of the rows given to is_header_row on its own.
MaxHeaderCols == 5
\* Rows and columns of the grid the boxes given to
\* filter_overlapping_candidates are drawn from, and the longest list of boxes.
NmsRows == 2
NmsCols == 2
MaxBoxes == 2

\* The grid of the sheets handed to create_inverted_index on its own.
IndexRows == 2

IndexCols == 2

\* The largest max_index and the largest k of the calls of
\* extract_k_neighborhood on its own.
MaxIndex == 4

MaxNeighborhood == 2

\* ------------------------------------------------------------------- text
Letters ==
    <<"A","B","C","D","E","F","G","H","I","J","K","L","M",
      "N","O","P","Q","R","S","T","U","V","W","X","Y","Z">>

LowerLetters ==
    <<"a","b","c","d","e","f","g","h","i","j","k","l","m",
      "n","o","p","q","r","s","t","u","v","w","x","y","z">>

Digits == <<"0","1","2","3","4","5","6","7","8","9">>

Range(s) == { s[i] : i \in DOMAIN s }

isalpha(ch) == ch \in Range(Letters) \cup Range(LowerLetters)

isdigit(ch) == ch \in Range(Digits)

isspace(ch) == ch \in {" ", "\t", "\n"}

\* str.isupper(): at least one cased character and no lowercase one.
isupper(s) ==
    /\ \E i \in DOMAIN s : s[i] \in Range(Letters)
    /\ \A i \in DOMAIN s : s[i] \notin Range(LowerLetters)

\* str.strip() == "": every character is white space.
strip_is_empty(s) == \A i \in DOMAIN s : isspace(s[i])

RECURSIVE NatToStr(_)
NatToStr(n) ==
    IF n < 10 THEN <<Digits[n + 1]>>
    ELSE NatToStr(n \div 10) \o <<Digits[(n % 10) + 1]>>

\* str(n) / f"{n}" of a Python int.
IntToStr(n) == IF n < 0 THEN <<"-">> \o NatToStr(-n) ELSE NatToStr(n)

DigitValue(ch) == (CHOOSE i \in DOMAIN Digits : Digits[i] = ch) - 1

RECURSIVE StrToNat(_)
\* int(row_str) of a string of decimal digits.
StrToNat(s) ==
    IF Len(s) = 0 THEN 0
    ELSE StrToNat(SubSeq(s, 1, Len(s) - 1)) * 10 + DigitValue(s[Len(s)])

RECURSIVE get_column_letter(_)
\* openpyxl.utils.get_column_letter: bijective base 26.
get_column_letter(c) ==
    IF c <= 26 THEN <<Letters[c]>>
    ELSE get_column_letter((c - 1) \div 26) \o <<Letters[((c - 1) % 26) + 1]>>

LetterValue(ch) == CHOOSE i \in DOMAIN Letters : Letters[i] = ch

RECURSIVE column_index_from_string(_)
\* openpyxl.utils.cell.column_index_from_string.
column_index_from_string(s) ==
    IF Len(s) = 0 THEN 0
    ELSE column_index_from_string(SubSeq(s, 1, Len(s) - 1)) * 26
         + LetterValue(s[Len(s)])

\* f"{get_column_letter(col)}{row}"
CellRef(row, col) == get_column_letter(col) \o IntToStr(row)

\* split_cell_ref: <<col_str, int(row_str)>>.
split_cell_ref(cell_ref) ==
    <<SelectSeq(cell_ref, isalpha), StrToNat(SelectSeq(cell_ref, isdigit))>>

\* col_letter, row = split_cell_ref(ref); col = column_index_from_string(
\* col_letter): the coordinate <<row, col>> of an address.
ref_coord(ref) ==
    LET parts == split_cell_ref(ref)
    IN  <<parts[2], column_index_from_string(parts[1])>>

\* A range string: "A1" for one cell, otherwise "A1:B3".
RangeStr(row, col, end_row, end_col) ==
    IF row = end_row /\ col = end_col THEN CellRef(row, col)
    ELSE CellRef(row, col) \o <<":">> \o CellRef(end_row, end_col)

\* evaluation.range_to_bbox: <<r1, c1, r2, c2>> of "A1" or "A1:B3".
range_to_bbox(range_str) ==
    LET colons == { i \in DOMAIN range_str : range_str[i] = ":" }
        cut == IF colons = {} THEN Len(range_str) + 1
               ELSE CHOOSE i \in colons : \A j \in colons : i <= j
        start_cell == SubSeq(range_str, 1, cut - 1)
        rest == SubSeq(range_str, cut + 1, Len(range_str))
        rest_colons == { i \in DOMAIN rest : rest[i] = ":" }
        end_cell == IF colons = {} THEN start_cell
                    ELSE IF rest_colons = {} THEN rest
                    ELSE SubSeq(rest, 1,
                            (CHOOSE i \in rest_colons :
                                \A j \in rest_colons : i <= j) - 1)
    IN  <<StrToNat(SelectSeq(start_cell, isdigit)),
          column_index_from_string(SelectSeq(start_cell, isalpha)),
          StrToNat(SelectSeq(end_cell, isdigit)),
          column_index_from_string(SelectSeq(end_cell, isalpha))>>

\* ---------------------------------------------------------------- helpers
\* sorted(set_of_ints)
RECURSIVE SortedSeq(_)
SortedSeq(S) ==
    IF S = {} THEN <<>>
    ELSE LET m == CHOOSE x \in S : \A y \in S : x <= y
         IN  <<m>> \o SortedSeq(S \ {m})

\* Lexicographic order on <<row, col>> pairs (Python tuple comparison).
PairLess(a, b) == a[1] < b[1] \/ (a[1] = b[1] /\ a[2] < b[2])

\* sorted(set_of_pairs)
RECURSIVE SortedPairs(_)
SortedPairs(S) ==
    IF S = {} THEN <<>>
    ELSE LET m == CHOOSE x \in S : \A y \in S : x = y \/ PairLess(x, y)
         IN  <<m>> \o SortedPairs(S \ {m})

RECURSIVE SumSeq(_)
SumSeq(s) == IF Len(s) = 0 THEN 0 ELSE s[1] + SumSeq(Tail(s))

\* Position of key in a dict (sequence of [k, v] entries), 0 when absent.
KeyIndex(d, key) ==
    IF \E i \in DOMAIN d : d[i].k = key
    THEN CHOOSE i \in DOMAIN d : d[i].k = key
    ELSE 0

\* defaultdict(list)[key].append(x): insertion order of the keys is kept.
DictAppend(d, key, x) ==
    LET i == KeyIndex(d, key)
    IN  IF i = 0 THEN Append(d, [k |-> key, v |-> <<x>>])
        ELSE [d EXCEPT ![i].v = Append(@, x)]

RECURSIVE Flatten(_)
\* Concatenation of a sequence of sequences (the order of nested loops).
Flatten(ss) == IF Len(ss) = 0 THEN <<>> ELSE ss[1] \o Flatten(Tail(ss))

Max(a, b) == IF a >= b THEN a ELSE b

Min(a, b) == IF a <= b THEN a ELSE b

\* ------------------------------------------------------------------ cells
\* A cell value: None, a Python int or a Python str.
NoneValue == [t |-> "none", n |-> 0, s |-> <<>>]

IntValue(n) == [t |-> "int", n |-> n, s |-> <<>>]

StrValue(s) == [t |-> "str", n |-> 0, s |-> s]

\* str(cell.value) / f"{cell.value}" of a value that is not None.
str(value) == IF value.t = "int" THEN IntToStr(value.n) ELSE value.s

\* An openpyxl cell: value, font.bold, alignment.horizontal, fill.patternType
\* and number_format.
MakeCell(value, bold, horizontal, fill, nfs) ==
    [value |-> value, bold |-> bold, horizontal |-> horizontal,
     fill |-> fill, number_format |-> nfs, format_fault |-> FALSE]

\* A cell whose style attributes raise when create_inverted_index reads them.
Faulty(cl) == [cl EXCEPT !.format_fault = TRUE]

EmptyCell == MakeCell(NoneValue, FALSE, "none", "none", "General")

\* sheet.cell(row=r, column=c)
cell(sheet, r, c) == sheet.cells[<<r, c>>]

\* sheet[cell_ref]
cell_at(sheet, ref) == sheet.cells[ref_coord(ref)]

\* cell.coordinate in m_range, for a merge range [r1, c1, r2, c2].
InRange(r, c, m) ==
    /\ m.r1 <= r /\ r <= m.r2
    /\ m.c1 <= c /\ c <= m.c2

\* get_cell_style_key: the style attributes that take part in a profile.
get_cell_style_key(cl) == <<cl.bold, cl.fill, cl.horizontal>>

\* --------------------------------------------------- structural anchors
\* Number of columns c of the row for which P(cell) holds.
CountCols(sheet, row_idx, P(_)) ==
    Cardinality({ c \in 1..sheet.max_column : P(cell(sheet, row_idx, c)) })

Populated(cl) == cl.value.t # "none" /\ ~strip_is_empty(str(cl.value))

is_header_row(sheet, row_idx) ==
    LET num_populated == CountCols(sheet, row_idx, Populated)
        num_bold == CountCols(sheet, row_idx,
                        LAMBDA cl : Populated(cl) /\ cl.bold)
        num_centered == CountCols(sheet, row_idx,
                        LAMBDA cl : Populated(cl) /\ cl.horizontal = "center")
        num_strings == CountCols(sheet, row_idx,
                        LAMBDA cl : Populated(cl) /\ cl.value.t = "str")
        num_all_caps == CountCols(sheet, row_idx,
                        LAMBDA cl : /\ Populated(cl)
                                    /\ cl.value.t = "str"
                                    /\ isupper(cl.value.s)
                                    /\ Len(cl.value.s) > 1)
    IN  /\ num_populated # 0
        /\ \/ 10 * num_bold > 6 * num_populated
           \/ 10 * num_centered > 6 * num_populated
           \/ num_strings > 0 /\ 10 * num_all_caps > 6 * num_strings

\* One entry of a row or column profile.
ProfileEntry(sheet, r, c) ==
    <<cell(sheet, r, c).value,
      \E m \in sheet.merged : InRange(r, c, m),
      get_cell_style_key(cell(sheet, r, c))>>

row_profile(sheet, r) ==
    [c \in 1..sheet.max_column |-> ProfileEntry(sheet, r, c)]

col_profile(sheet, c) ==
    [r \in 1..sheet.max_row |-> ProfileEntry(sheet, r, c)]

\* Both sides of every boundary between two rows whose profiles differ.
row_candidates(sheet) ==
    UNION { {r, r + 1} : r \in { x \in 1..(sheet.max_row - 1) :
                row_profile(sheet, x + 1) # row_profile(sheet, x) } }

col_candidates(sheet) ==
    UNION { {c, c + 1} : c \in { x \in 1..(sheet.max_column - 1) :
                col_profile(sheet, x + 1) # col_profile(sheet, x) } }

header_rows(sheet) == { idx \in 1..sheet.max_row : is_header_row(sheet, idx) }

\* All <<s[i], s[j]>> with i < j, in the order of the two nested loops.
PairsOf(s) ==
    Flatten([i \in 1..Len(s) |->
                [j \in 1..(Len(s) - i) |-> <<s[i], s[i + j]>>]])

\* compose_candidates with the header rows left among the row candidates.
compose_candidates_with_headers(sheet) ==
    LET rows == SortedSeq(row_candidates(sheet))
        cols == SortedSeq(col_candidates(sheet))
        rp == PairsOf(rows)
        cp == PairsOf(cols)
    IN  Flatten([p \in 1..Len(rp) |->
                    [q \in 1..Len(cp) |->
                        <<rp[p][1], cp[q][1], rp[p][2], cp[q][2]>>]])

\* Step 2 of find_boundary_candidates: boxes <<r1, c1, r2, c2>>.
compose_candidates(sheet) ==
    LET rows == SortedSeq(row_candidates(sheet) \ header_rows(sheet))
        cols == SortedSeq(col_candidates(sheet))
        rp == PairsOf(rows)
        cp == PairsOf(cols)
    IN  Flatten([p \in 1..Len(rp) |->
                    [q \in 1..Len(cp) |->
                        <<rp[p][1], cp[q][1], rp[p][2], cp[q][2]>>]])

BoxCells(b) == (b[1]..b[3]) \X (b[2]..b[4])

BoxArea(b) == (b[3] - b[1] + 1) * (b[4] - b[2] + 1)

reasonable(sheet, b) ==
    LET populated_cells ==
            Cardinality({ p \in BoxCells(b) :
                            cell(sheet, p[1], p[2]).value.t # "none" })
    IN  /\ ~(b[3] - b[1] < 1 \/ b[4] - b[2] < 1)
        /\ ~(10 * populated_cells < BoxArea(b))
        /\ \E r \in b[1]..b[3] : is_header_row(sheet, r)

filter_unreasonable_candidates(sheet, candidates) ==
    SelectSeq(candidates, LAMBDA b : reasonable(sheet, b))

\* Intersection area and union area of two boxes (inclusive bounds).
inter_area(b1, b2) ==
    Max(0, Min(b1[3], b2[3]) - Max(b1[1], b2[1]) + 1)
    * Max(0, Min(b1[4], b2[4]) - Max(b1[2], b2[2]) + 1)

union_area(b1, b2) == BoxArea(b1) + BoxArea(b2) - inter_area(b1, b2)

\* calculate_iou(b1, b2) < 0.5
iou_below_half(b1, b2) ==
    IF union_area(b1, b2) > 0
    THEN 2 * inter_area(b1, b2) < union_area(b1, b2)
    ELSE TRUE

candidate_score(sheet, b) ==
    10 * Cardinality({ r \in b[1]..(Min(b[1] + 3, b[3] + 1) - 1) :
                        is_header_row(sheet, r) })
    + BoxArea(b)

\* The indices left in the order of the candidates.
sort_by_score_unsorted(indices, scores) == indices

RECURSIVE sort_by_score(_, _)
\* indices.sort(key=scores, reverse=True): stable, highest score first.
sort_by_score(indices, scores) ==
    IF Len(indices) = 0 THEN <<>>
    ELSE LET best == CHOOSE p \in DOMAIN indices :
                        /\ \A q \in DOMAIN indices :
                                scores[indices[q]] <= scores[indices[p]]
                        /\ \A q \in 1..(p - 1) :
                                scores[indices[q]] < scores[indices[p]]
             rest == [q \in 1..(Len(indices) - 1) |->
                        IF q < best THEN indices[q] ELSE indices[q + 1]]
         IN  <<indices[best]>> \o sort_by_score(rest, scores)

RECURSIVE suppress(_, _)
\* The keep loop of filter_overlapping_candidates.
suppress(indices, candidates) ==
    IF Len(indices) = 0 THEN <<>>
    ELSE LET current_idx == Head(indices)
         IN  <<current_idx>>
             \o suppress(SelectSeq(Tail(indices),
                            LAMBDA idx : iou_below_half(candidates[current_idx],
                                                        candidates[idx])),
                         candidates)

filter_overlapping_candidates(sheet, candidates) ==
    IF Len(candidates) = 0 THEN <<>>
    ELSE LET \* the list scores, built once (<<>> \o makes it a tuple)
             scores == <<>> \o [i \in DOMAIN candidates |->
                            candidate_score(sheet, candidates[i])]
             indices == sort_by_score([i \in DOMAIN candidates |-> i], scores)
             keep == suppress(indices, candidates)
         IN  [i \in DOMAIN keep |-> candidates[keep[i]]]

\* Step 5 of find_boundary_candidates: <<sorted row bounds, sorted column
\* bounds>> of the boxes that are left.
derive_anchors(candidates) ==
    <<SortedSeq(UNION { {candidates[i][1], candidates[i][3]} :
                            i \in DOMAIN candidates }),
      SortedSeq(UNION { {candidates[i][2], candidates[i][4]} :
                            i \in DOMAIN candidates })>>

\* extract_k_neighborhood with range(..., idx + k) for range(..., idx + k + 1).
extract_k_neighborhood_short(indices, k, max_index) ==
    SortedSeq(UNION { Max(1, indices[i] - k)
                        ..(Min(max_index + 1, indices[i] + k) - 1) :
                      i \in DOMAIN indices })

\* extract_k_neighborhood without the clip at max_index.
extract_k_neighborhood_unclipped(indices, k, max_index) ==
    SortedSeq(UNION { Max(1, indices[i] - k)..(indices[i] + k) :
                      i \in DOMAIN indices })

extract_k_neighborhood(indices, k, max_index) ==
    SortedSeq(UNION { Max(1, indices[i] - k)
                        ..(Min(max_index + 1, indices[i] + k + 1) - 1) :
                      i \in DOMAIN indices })

\* find_structural_anchors, given what find_boundary_candidates returned.
expand_anchors(sheet, boundary, k) ==
    <<extract_k_neighborhood(boundary[1], k, sheet.max_row),
      extract_k_neighborhood(boundary[2], k, sheet.max_column)>>

extract_cells_near_anchors(sheet, row_anchors, col_anchors, k) ==
    <<SortedSeq(UNION { Max(1, row_anchors[i] - k)
                          ..(Min(sheet.max_row + 1, row_anchors[i] + k + 1) - 1) :
                        i \in DOMAIN row_anchors }),
      SortedSeq(UNION { Max(1, col_anchors[i] - k)
                          ..(Min(sheet.max_column + 1, col_anchors[i] + k + 1) - 1) :
                        i \in DOMAIN col_anchors })>>

\* ------------------------------------------------- homogeneity compressor
\* row_homogeneous with "< 1" for "<= 1".
row_homogeneous_below_one(sheet, r, cols) ==
    /\ Cardinality({ cell(sheet, r, cols[i]).value : i \in DOMAIN cols }) < 1
    /\ Cardinality({ cell(sheet, r, cols[i]).number_format :
                        i \in DOMAIN cols }) < 1

row_homogeneous(sheet, r, cols) ==
    /\ Cardinality({ cell(sheet, r, cols[i]).value : i \in DOMAIN cols }) <= 1
    /\ Cardinality({ cell(sheet, r, cols[i]).number_format :
                        i \in DOMAIN cols }) <= 1

col_homogeneous(sheet, c, rows) ==
    /\ Cardinality({ cell(sheet, rows[i], c).value : i \in DOMAIN rows }) <= 1
    /\ Cardinality({ cell(sheet, rows[i], c).number_format :
                        i \in DOMAIN rows }) <= 1

\* The columns judged against the rows that are left, not the rows given.
compress_homogeneous_regions_in_turn(sheet, rows, cols) ==
    LET filtered_rows ==
            SelectSeq(rows, LAMBDA r : ~row_homogeneous(sheet, r, cols))
    IN  <<filtered_rows,
          SelectSeq(cols, LAMBDA c : ~col_homogeneous(sheet, c, filtered_rows))>>

compress_homogeneous_regions(sheet, rows, cols) ==
    <<SelectSeq(rows, LAMBDA r : ~row_homogeneous(sheet, r, cols)),
      SelectSeq(cols, LAMBDA c : ~col_homogeneous(sheet, c, rows))>>


\* -------------------------------------------------- inverted value index
\* The <<row, col>> pairs of two nested loops over rows and cols.
GridOrder(rows, cols) ==
    Flatten([i \in 1..Len(rows) |->
                [j \in 1..Len(cols) |-> <<rows[i], cols[j]>>]])

\* temp_helpers.infer_cell_data_type for None, int and str values.
infer_cell_data_type(cl) ==
    CASE cl.value.t = "none" -> "empty"
      [] cl.value.t = "int"  -> "numeric"
      [] OTHER               -> "text"

\* categorize_number_format(number_format, cell): the second argument is the
\* cell itself, never one of the strings "numeric" and "datetime".
categorize_number_format_of_cell(nfs, cl) == "not_applicable"

\* The merge range that holds <<r, c>>, as a set of at most one range.
merge_range_of(sheet, r, c) == { m \in sheet.merged : InRange(r, c, m) }

index_value_own(sheet, r, c) ==
    IF cell(sheet, r, c).value.t # "none"
    THEN {str(cell(sheet, r, c).value)}
    ELSE {}

\* The value a retained cell is indexed under, as a set of at most one string.
index_value(sheet, r, c) ==
    LET ms == merge_range_of(sheet, r, c)
        merged_value ==
            IF ms = {} THEN NoneValue
            ELSE LET m == CHOOSE x \in ms : TRUE
                 IN  cell(sheet, m.r1, m.c1).value
    IN  IF merged_value.t # "none" THEN {str(merged_value)}
        ELSE IF cell(sheet, r, c).value.t # "none"
             THEN {str(cell(sheet, r, c).value)}
             ELSE {}

\* The format_info of a retained cell (the key of format_map).
format_key(sheet, r, c) ==
    LET cl == cell(sheet, r, c)
        ms == merge_range_of(sheet, r, c)
    IN  [bold |-> cl.bold,
         horizontal |-> cl.horizontal,
         fill |-> cl.fill,
         original_number_format |-> cl.number_format,
         inferred_data_type |-> infer_cell_data_type(cl),
         number_format_category |->
             categorize_number_format_of_cell(cl.number_format, cl),
         merged |-> ms # {},
         merged_range |->
             IF ms = {} THEN <<>>
             ELSE LET m == CHOOSE x \in ms : TRUE
                  IN  RangeStr(m.r1, m.c1, m.r2, m.c2)]

RECURSIVE index_fold(_, _, _)
\* The loop of create_inverted_index over the retained cells.
index_fold(sheet, order, acc) ==
    IF Len(order) = 0 THEN acc
    ELSE LET r == order[1][1]
             c == order[1][2]
             ref == CellRef(r, c)
             vs == index_value(sheet, r, c)
             inv == IF vs = {} THEN acc[1]
                    ELSE DictAppend(acc[1], CHOOSE v \in vs : TRUE, ref)
             \* except Exception as e: logger.warning(...) records nothing
             fmt == IF cell(sheet, r, c).format_fault THEN acc[2]
                    ELSE DictAppend(acc[2], format_key(sheet, r, c), ref)
         IN  index_fold(sheet, Tail(order), <<inv, fmt>>)

\* <<inverted_index, format_map>>
create_inverted_index(sheet, kept_rows, kept_cols) ==
    index_fold(sheet, GridOrder(kept_rows, kept_cols), <<<<>>, <<>>>>)

\* ----------------------------------------------------------- range merger
\* The width left as it is given: a range never grows to the right.
grow_width_none(cell_set, processed, row, col, width) == width

RECURSIVE grow_width(_, _, _, _, _)
grow_width(cell_set, processed, row, col, width) ==
    IF <<row, col + width>> \in cell_set /\ <<row, col + width>> \notin processed
    THEN grow_width(cell_set, processed, row, col, width + 1)
    ELSE width

RECURSIVE grow_height_first_column(_, _, _, _, _, _)
\* grow_height with the row below tested in its first column only.
grow_height_first_column(cell_set, processed, row, col, width, height) ==
    IF /\ <<row + height, col>> \in cell_set
       /\ <<row + height, col>> \notin processed
    THEN grow_height_first_column(cell_set, processed, row, col, width,
                                  height + 1)
    ELSE height

RECURSIVE grow_height(_, _, _, _, _, _)
grow_height(cell_set, processed, row, col, width, height) ==
    IF \A w \in 0..(width - 1) :
            /\ <<row + height, col + w>> \in cell_set
            /\ <<row + height, col + w>> \notin processed
    THEN grow_height(cell_set, processed, row, col, width, height + 1)
    ELSE height

\* One iteration of the sweep of _merge_refs, on st = [processed, ranges].
merge_step(cell_set, st, coord) ==
    IF coord \in st.processed THEN st
    ELSE LET row == coord[1]
             col == coord[2]
             width == grow_width(cell_set, st.processed, row, col, 1)
             height == grow_height(cell_set, st.processed, row, col, width, 1)
         IN  [processed |-> st.processed
                    \cup ((row..(row + height - 1)) \X (col..(col + width - 1))),
              ranges |-> Append(st.ranges,
                    RangeStr(row, col, row + height - 1, col + width - 1))]

\* coords of _merge_refs: the parsed addresses of set(refs).
merge_coords(refs) == { ref_coord(refs[i]) : i \in DOMAIN refs }

RECURSIVE merge_sweep(_, _, _)
merge_sweep(cell_set, order, st) ==
    IF Len(order) = 0 THEN st
    ELSE merge_sweep(cell_set, Tail(order), merge_step(cell_set, st, order[1]))

_merge_refs(refs) ==
    LET cell_set == merge_coords(refs)
    IN  merge_sweep(cell_set, SortedPairs(cell_set),
                    [processed |-> {}, ranges |-> <<>>]).ranges

\* create_inverted_index_translation without the skip of blank values.
create_inverted_index_translation_all(inverted_index) ==
    [i \in DOMAIN inverted_index |->
        [k |-> inverted_index[i].k, v |-> _merge_refs(inverted_index[i].v)]]

create_inverted_index_translation(inverted_index) ==
    LET kept == SelectSeq(inverted_index, LAMBDA e : ~strip_is_empty(e.k))
    IN  [i \in DOMAIN kept |-> [k |-> kept[i].k, v |-> _merge_refs(kept[i].v)]]

\* ------------------------------------------------ format region aggregator
\* The largest width and height the region search tries.
MaxRegionSide == 20

get_number_format_string(cl) == cl.number_format

detect_semantic_type(cl) ==
    CASE cl.value.t = "none" -> "empty"
      [] cl.value.t = "int"  -> "integer"
      [] OTHER               -> "text"

\* json.dumps({"type": sem_type, "nfs": nfs}, sort_keys=True)
semantic_key(cl) ==
    [nfs |-> get_number_format_string(cl), type |-> detect_semantic_type(cl)]

RECURSIVE type_nfs_fold(_, _, _)
type_nfs_fold(sheet, refs, acc) ==
    IF Len(refs) = 0 THEN acc
    ELSE type_nfs_fold(sheet, Tail(refs),
            DictAppend(acc, semantic_key(cell_at(sheet, refs[1])), refs[1]))

\* type_nfs_map: every address of format_map under its semantic key.
build_type_nfs_map(sheet, format_map) ==
    type_nfs_fold(sheet,
        Flatten([i \in DOMAIN format_map |-> format_map[i].v]), <<>>)

\* The block of width x height cells at <<row, col>>.
Block(row, col, width, height) ==
    (row..(row + height - 1)) \X (col..(col + width - 1))

\* The search of a start cell with the processed cells not looked at.
best_block_ignoring_processed(sheet, cells_set, processed, row, col) ==
    LET max_width == Min(MaxRegionSide, sheet.max_column - col + 1)
        max_height == Min(MaxRegionSide, sheet.max_row - row + 1)
        valid == { wh \in (1..max_width) \X (1..max_height) :
                     \A p \in Block(row, col, wh[1], wh[2]) :
                        CellRef(p[1], p[2]) \in cells_set }
    IN  CHOOSE wh \in valid \cup {<<1, 1>>} :
            \A o \in valid :
                \/ o[1] * o[2] < wh[1] * wh[2]
                \/ o[1] * o[2] = wh[1] * wh[2] /\ wh[1] <= o[1]

\* The search of a start cell with "area >= best_area": among the blocks of
\* the largest area the last one found is kept.
best_block_last_of_equal(sheet, cells_set, processed, row, col) ==
    LET max_width == Min(MaxRegionSide, sheet.max_column - col + 1)
        max_height == Min(MaxRegionSide, sheet.max_row - row + 1)
        valid == { wh \in (1..max_width) \X (1..max_height) :
                     \A p \in Block(row, col, wh[1], wh[2]) :
                        /\ CellRef(p[1], p[2]) \in cells_set
                        /\ CellRef(p[1], p[2]) \notin processed }
    IN  CHOOSE wh \in valid \cup {<<1, 1>>} :
            \A o \in valid :
                \/ o[1] * o[2] < wh[1] * wh[2]
                \/ o[1] * o[2] = wh[1] * wh[2] /\ wh[1] >= o[1]

RECURSIVE block_scan(_, _, _, _, _, _)
\* The two loops over width and height, on the <<width, height>> pairs still
\* to try: best is <<best_width, best_height>>, replaced by a valid block of
\* a larger area.
block_scan(pairs, best, cells_set, processed, row, col) ==
    IF Len(pairs) = 0 THEN best
    ELSE LET wh == Head(pairs)
             valid_rectangle ==
                \A p \in Block(row, col, wh[1], wh[2]) :
                    /\ CellRef(p[1], p[2]) \in cells_set
                    /\ CellRef(p[1], p[2]) \notin processed
         IN  block_scan(Tail(pairs),
                        IF valid_rectangle /\ wh[1] * wh[2] > best[1] * best[2]
                        THEN wh ELSE best,
                        cells_set, processed, row, col)

\* The best <<width, height>> at a start cell: widths in the outer loop,
\* heights in the inner loop.
best_block(sheet, cells_set, processed, row, col) ==
    LET max_width == Min(MaxRegionSide, sheet.max_column - col + 1)
        max_height == Min(MaxRegionSide, sheet.max_row - row + 1)
        pairs == [n \in 1..(max_width * max_height) |->
                    <<((n - 1) \div max_height) + 1,
                      ((n - 1) % max_height) + 1>>]
    IN  block_scan(pairs, <<1, 1>>, cells_set, processed, row, col)

\* One start cell of one bucket, on st = [processed, out].
region_step(sheet, key, cells_set, st, start_cell) ==
    IF start_cell \in st.processed THEN st
    ELSE LET rc == ref_coord(start_cell)
             wh == best_block(sheet, cells_set, st.processed, rc[1], rc[2])
             region == IF wh = <<1, 1>> THEN start_cell
                       ELSE start_cell \o <<":">>
                            \o CellRef(rc[1] + wh[2] - 1, rc[2] + wh[1] - 1)
         IN  [processed |-> st.processed
                    \cup { CellRef(p[1], p[2]) :
                            p \in Block(rc[1], rc[2], wh[1], wh[2]) },
              out |-> DictAppend(st.out, key, region)]

RECURSIVE region_cells_fold(_, _, _, _, _)
region_cells_fold(sheet, key, cells_set, cells, st) ==
    IF Len(cells) = 0 THEN st
    ELSE region_cells_fold(sheet, key, cells_set, Tail(cells),
            region_step(sheet, key, cells_set, st, cells[1]))

RECURSIVE region_keys_fold(_, _, _)
region_keys_fold(sheet, map, st) ==
    IF Len(map) = 0 THEN st
    ELSE region_keys_fold(sheet, Tail(map),
            region_cells_fold(sheet, map[1].k, Range(map[1].v), map[1].v, st))

\* The region loop of aggregate_formats over a map of buckets.
aggregate_regions(sheet, map) ==
    region_keys_fold(sheet, map, [processed |-> {}, out |-> <<>>]).out

\* aggregate_regions_dfs(sheet, type_nfs_map)
aggregate_regions_dfs(sheet, map) == aggregate_regions(sheet, map)

NumericTypes == {"numeric", "integer", "float"}

\* numeric_map without the filter on the type.
numeric_map_of_all(type_nfs_map) == type_nfs_map

\* numeric_map of spreadsheet_llm_encode.
numeric_map_of(type_nfs_map) ==
    SelectSeq(type_nfs_map, LAMBDA e : e.k.type \in NumericTypes)


\* ------------------------------------------------------------ token counts
\* len(json.dumps(s)) of a string without characters that need an escape.
JsonStrLen(s) == Len(s) + 2

\* len(json.dumps(...)) of a list or dict whose items have the given lengths.
JsonItemsLen(lens) ==
    IF Len(lens) = 0 THEN 2 ELSE 2 + SumSeq(lens) + 2 * (Len(lens) - 1)

JsonStrListLen(ss) == JsonItemsLen([i \in DOMAIN ss |-> JsonStrLen(ss[i])])

JsonIntListLen(ns) == JsonItemsLen([i \in DOMAIN ns |-> Len(IntToStr(ns[i]))])

\* A semantic key as a key of a JSON object: the quotes of the inner
\* {"nfs": "...", "type": "..."} are escaped.
SemanticKeyJsonLen(key) == (Len(key.nfs) + Len(key.type) + 23) + 8 + 2

\* {"A1": "Header", ...}: the populated cells of rows x cols.
cells_tokens(sheet, rows, cols) ==
    LET order == SelectSeq(GridOrder(rows, cols),
                    LAMBDA p : cell(sheet, p[1], p[2]).value.t # "none")
    IN  JsonItemsLen([i \in DOMAIN order |->
            JsonStrLen(CellRef(order[i][1], order[i][2])) + 2
            + JsonStrLen(str(cell(sheet, order[i][1], order[i][2]).value))])

\* {value: [range, ...], ...}
index_json_len(merged_index) ==
    JsonItemsLen([i \in DOMAIN merged_index |->
        JsonStrLen(merged_index[i].k) + 2 + JsonStrListLen(merged_index[i].v)])

\* {semantic key: [range, ...], ...}
formats_json_len(formats) ==
    JsonItemsLen([i \in DOMAIN formats |->
        SemanticKeyJsonLen(formats[i].k) + 2 + JsonStrListLen(formats[i].v)])

encoding_json_len(enc) ==
    LET anchors == JsonItemsLen(<<
            6 + 2 + JsonIntListLen(enc.structural_anchors.rows),
            9 + 2 + JsonStrListLen(enc.structural_anchors.columns)>>)
    IN  JsonItemsLen(<<20 + 2 + anchors,
                       7 + 2 + index_json_len(enc.cells),
                       9 + 2 + formats_json_len(enc.formats),
                       16 + 2 + formats_json_len(enc.numeric_ranges)>>)

\* The two tests in the other order: 1.0 when both counts are 0.
calculate_compression_ratio_original_first(original_tokens, compressed_tokens) ==
    IF original_tokens = 0 THEN <<1, 1>>
    ELSE IF compressed_tokens = 0 THEN <<0, 1>>
    ELSE <<original_tokens, compressed_tokens>>

\* A ratio as <<numerator, denominator>>.
calculate_compression_ratio(original_tokens, compressed_tokens) ==
    IF compressed_tokens = 0 THEN <<0, 1>>
    ELSE IF original_tokens = 0 THEN <<1, 1>>
    ELSE <<original_tokens, compressed_tokens>>

\* ------------------------------------------------------------------ inputs
S_ID == <<"I", "D">>

S_Value == <<"V", "a", "l", "u", "e">>

S_End == <<"E", "n", "d">>

S_Header == <<"H", "e", "a", "d", "e", "r">>

S_Data == <<"D", "a", "t", "a">>

Plain(value) == MakeCell(value, FALSE, "none", "none", "General")

RowKinds == {"blank", "zeros", "nums", "head", "text", "caps", "fmt"}

\* The cell of a generated row of the given kind at column c.
KindCell(kind, c) ==
    CASE kind = "blank" -> EmptyCell
      [] kind = "zeros" -> Plain(IntValue(0))
      [] kind = "nums"  -> Plain(IntValue(c))
      [] kind = "head"  ->
            MakeCell(StrValue(IF c = 1 THEN S_ID ELSE S_Value),
                     TRUE, "none", "none", "General")
      [] kind = "text"  ->
            Plain(IF c = 1 THEN StrValue(S_End) ELSE IntValue(5))
      [] kind = "caps"  -> Plain(StrValue(S_ID))
      [] OTHER          ->
            MakeCell(IntValue(0), FALSE, "none", "none",
                     IF c = 1 THEN "0" ELSE "General")

\* The sheet whose row r is of kind kinds[r], with ncols columns.
GenSheet(kinds, ncols) ==
    [max_row |-> Len(kinds),
     max_column |-> ncols,
     cells |-> [p \in (1..Len(kinds)) \X (1..ncols) |->
                    KindCell(kinds[p[1]], p[2])],
     merged |-> {}]

\* A1 = "Header", A2 = 42, B2 = "Data".
SmallGridSheet ==
    [max_row |-> 2, max_column |-> 2,
     cells |-> (<<1, 1>> :> Plain(StrValue(S_Header)))
            @@ (<<1, 2>> :> EmptyCell)
            @@ (<<2, 1>> :> Plain(IntValue(42)))
            @@ (<<2, 2>> :> Plain(StrValue(S_Data))),
     merged |-> {}]

\* test_encoder_compression.create_workbook_with_homogeneous_rows
HomogeneousRowsSheet ==
    [max_row |-> 4, max_column |-> 2,
     cells |-> [p \in (1..4) \X (1..2) |->
                CASE p = <<1, 1>> -> Plain(StrValue(S_ID))
                  [] p = <<1, 2>> -> Plain(StrValue(S_Value))
                  [] p = <<4, 1>> -> Plain(StrValue(S_End))
                  [] p = <<4, 2>> -> Plain(IntValue(5))
                  [] OTHER        -> Plain(IntValue(0))],
     merged |-> {}]

\* A table whose header A2:B2 is one merged range.
MergedHeaderSheet ==
    LET base == GenSheet(<<"nums", "head", "zeros">>, 2)
    IN  [base EXCEPT !.cells[<<2, 2>>] = MakeCell(NoneValue, TRUE, "none",
                                                  "none", "General"),
                     !.merged = {[r1 |-> 2, c1 |-> 1, r2 |-> 2, c2 |-> 2]}]

\* Sheet1 of test_spreadsheet_encoder.setUp: a bold header A1:B1, integers in
\* A2:B3 and the filled text block D4:E4.
TestWorkbookSheet ==
    LET bold(s) == MakeCell(StrValue(s), TRUE, "none", "none", "General")
        filled(s) == MakeCell(StrValue(s), FALSE, "none", "solid", "General")
    IN  [max_row |-> 4, max_column |-> 5,
         cells |-> [p \in (1..4) \X (1..5) |->
                CASE p = <<1, 1>> -> bold(S_Header \o <<" ", "1">>)
                  [] p = <<1, 2>> -> bold(S_Header \o <<" ", "2">>)
                  [] p = <<2, 1>> -> Plain(IntValue(100))
                  [] p = <<2, 2>> -> Plain(IntValue(200))
                  [] p = <<3, 1>> -> Plain(IntValue(150))
                  [] p = <<3, 2>> -> Plain(IntValue(250))
                  [] p = <<4, 4>> -> filled(S_Data)
                  [] p = <<4, 5>> -> filled(<<"M", "o", "r", "e", " ">> \o S_Data)
                  [] OTHER        -> EmptyCell],
         merged |-> {}]

\* A table under a bold header whose last row holds the blank text " " in
\* column A.
BlankTextSheet ==
    LET base == GenSheet(<<"nums", "head", "nums">>, 2)
    IN  [base EXCEPT !.cells[<<3, 1>>] = Plain(StrValue(<<" ">>)),
                     !.cells[<<3, 2>>] = Plain(IntValue(5))]

NamedSheets ==
    {SmallGridSheet, HomogeneousRowsSheet, MergedHeaderSheet, TestWorkbookSheet,
     BlankTextSheet}

\* The sheets that workbooks of several sheets are made of.
SmallSheets ==
    { GenSheet(<<"blank">>, 1), GenSheet(<<"zeros">>, 1),
      GenSheet(<<"zeros">>, 2), GenSheet(<<"nums", "head", "zeros">>, 2),
      SmallGridSheet }

KValues == (-1)..MaxK

\* workbook.sheetnames[i]
SheetName(i) == <<"S", "h", "e", "e", "t">> \o IntToStr(i)


\* ------------------------------------------------------------------ vanilla
RECURSIVE Join(_, _)
\* sep.join(parts)
Join(parts, sep) ==
    IF Len(parts) = 0 THEN <<>>
    ELSE IF Len(parts) = 1 THEN parts[1]
    ELSE parts[1] \o sep \o Join(Tail(parts), sep)

\* The rows with the cells of no value left out.
vanilla_sheet_populated_only(sheet) ==
    Join([r \in 1..sheet.max_row |->
            Join(SelectSeq([c \in 1..sheet.max_column |->
                        IF cell(sheet, r, c).value.t # "none"
                        THEN CellRef(r, c) \o <<",">>
                             \o str(cell(sheet, r, c).value)
                        ELSE <<>>],
                    LAMBDA item : item # <<>>),
                 <<"|">>)],
         <<"\n">>)

\* One sheet of vanilla_encode: "A1,v|B1,w" rows joined by a line break.
vanilla_sheet(sheet) ==
    Join([r \in 1..sheet.max_row |->
            Join([c \in 1..sheet.max_column |->
                    CellRef(r, c) \o <<",">>
                    \o (IF cell(sheet, r, c).value.t # "none"
                        THEN str(cell(sheet, r, c).value) ELSE <<>>)],
                 <<"|">>)],
         <<"\n">>)

\* vanilla_content: one entry per sheet, in workbook order.
vanilla_content(wb) ==
    [i \in DOMAIN wb |-> [k |-> SheetName(i), v |-> vanilla_sheet(wb[i])]]

\* ------------------------------------------------------------------- state
VARIABLES
    workbook,        \* the sheets openpyxl loads from excel_path, in order
    loadable,        \* "ok", or why load_workbook fails: "missing", "corrupt"
    k,               \* the argument k
    vanilla,         \* the argument vanilla
    output_path,     \* TRUE when an output path is given
    pc,              \* position in spreadsheet_llm_encode
    idx,             \* index of the sheet the loop is at
    cur,             \* the locals of the current loop iteration
    sheets_encoding, \* dict: sheet name -> sheet encoding
    metrics_sheets,  \* compression_metrics["sheets"]
    totals,          \* overall_orig, overall_anchor, ... (the running sums)
    result,          \* what the call returned (or raised)
    output_file,     \* what was written to output_path
    m_pc,            \* position in _merge_refs
    m_src,           \* the addresses the caller put into refs
    m_refs,          \* its argument refs
    m_cell_set,      \* cell_set
    m_order,         \* the part of sorted(coords) still to visit
    m_st,            \* processed and ranges
    r_pc,            \* position in a call of calculate_compression_ratio
    r_original,      \* its argument original_tokens
    r_compressed,    \* its argument compressed_tokens
    r_ret,           \* what it returned
    a_pc,            \* position in the region loop of the format aggregator
    a_sheet,         \* max_row and max_column of its sheet
    a_map,           \* the map of keys to address lists it is given
    a_i,             \* index of the key the outer loop is at
    a_j,             \* index of the start cell the inner loop is at
    a_st,            \* processed_cells and aggregated_formats
    c_pc,            \* position in a call of identify_table
    c_encoding,      \* its argument encoding: the dict encoding["sheets"]
    c_query,         \* its argument query
    c_calls,         \* the prompts _call_llm was called with
    c_response,      \* llm_response
    c_ret,           \* what identify_table returned
    f_pc,            \* position in a call of one function on its own
    f_args,          \* the arguments of that call
    f_ret            \* what it returned

encoder_vars ==
    <<workbook, loadable, k, vanilla, output_path, pc, idx, cur,
      sheets_encoding, metrics_sheets, totals, result, output_file>>

merger_vars == <<m_pc, m_src, m_refs, m_cell_set, m_order, m_st>>

ratio_vars == <<r_pc, r_original, r_compressed, r_ret>>

agg_vars == <<a_pc, a_sheet, a_map, a_i, a_j, a_st>>

cos_vars == <<c_pc, c_encoding, c_query, c_calls, c_response, c_ret>>

call_vars == <<f_pc, f_args, f_ret>>

vars == <<encoder_vars, merger_vars, ratio_vars, agg_vars, cos_vars, call_vars>>

\* What a step of the encoder, and a step of _merge_refs, leaves alone.
outside_encoder == <<merger_vars, ratio_vars, agg_vars, cos_vars, call_vars>>

outside_merger == <<encoder_vars, ratio_vars, agg_vars, cos_vars, call_vars>>

outside_ratio == <<encoder_vars, merger_vars, agg_vars, cos_vars, call_vars>>

outside_agg == <<encoder_vars, merger_vars, ratio_vars, cos_vars, call_vars>>

outside_cos == <<encoder_vars, merger_vars, ratio_vars, agg_vars, call_vars>>

outside_call ==
    <<encoder_vars, merger_vars, ratio_vars, agg_vars, cos_vars>>

BlankCur ==
    [original_tokens |-> 0,
     candidates |-> <<>>,
     boundary_rows |-> <<>>, boundary_cols |-> <<>>,
     row_anchors |-> <<>>, col_anchors |-> <<>>,
     near_rows |-> <<>>, near_cols |-> <<>>,
     kept_rows |-> <<>>, kept_cols |-> <<>>,
     anchor_tokens |-> 0,
     inverted_index |-> <<>>, format_map |-> <<>>,
     merged_index |-> <<>>, index_tokens |-> 0,
     type_nfs_map |-> <<>>, aggregated_formats |-> <<>>, format_tokens |-> 0,
     numeric_ranges |-> <<>>]

ZeroTotals ==
    [original |-> 0, after_anchor |-> 0, after_inverted_index |-> 0,
     after_format |-> 0, final |-> 0]

NoResult == [kind |-> "pending"]

NoneResult == [kind |-> "None"]

RaisedResult == [kind |-> "raised"]

NoFile == [kind |-> "absent"]

EncoderIdle ==
    /\ workbook = <<>> /\ loadable = "ok" /\ k = 0 /\ vanilla = FALSE
    /\ output_path = FALSE /\ pc = "idle" /\ idx = 0 /\ cur = BlankCur
    /\ sheets_encoding = <<>> /\ metrics_sheets = <<>> /\ totals = ZeroTotals
    /\ result = NoResult /\ output_file = NoFile

MergerIdle ==
    /\ m_pc = "idle" /\ m_src = {} /\ m_refs = <<>>
    /\ m_cell_set = {} /\ m_order = <<>>
    /\ m_st = [processed |-> {}, ranges |-> <<>>]

RatioIdle ==
    /\ r_pc = "idle" /\ r_original = 0 /\ r_compressed = 0 /\ r_ret = <<0, 1>>

AggIdle ==
    /\ a_pc = "idle" /\ a_sheet = [max_row |-> 0, max_column |-> 0]
    /\ a_map = <<>> /\ a_i = 0 /\ a_j = 0
    /\ a_st = [processed |-> {}, out |-> <<>>]

\* An optional value: what a function that may return None returned.
None == [some |-> FALSE, v |-> <<>>]

Some(v) == [some |-> TRUE, v |-> v]

CosIdle ==
    /\ c_pc = "idle" /\ c_encoding = <<>> /\ c_query = <<>>
    /\ c_calls = <<>> /\ c_response = <<>> /\ c_ret = None

CallIdle == f_pc = "idle" /\ f_args = <<>> /\ f_ret = <<>>

\* No call is in progress in the components with a loop of their own.
AllIdle == EncoderIdle /\ MergerIdle /\ RatioIdle /\ AggIdle /\ CosIdle

\* The calls of spreadsheet_llm_encode that are tried: every generated or
\* named sheet alone in compressed mode, the workbooks of small sheets in both
\* modes with and without an output path, and the files that do not load.
InitInputs ==
    \/ /\ \E kinds \in UNION { [1..n -> RowKinds] : n \in 1..MaxRow } :
            \E ncols \in 1..MaxCol : workbook = <<GenSheet(kinds, ncols)>>
       /\ loadable = "ok" /\ k \in KValues
       /\ vanilla = FALSE /\ output_path = FALSE
    \/ /\ \E s \in NamedSheets : workbook = <<s>>
       /\ loadable = "ok" /\ k \in KValues
       /\ vanilla = FALSE /\ output_path = FALSE
    \/ /\ workbook \in UNION { [1..n -> SmallSheets] : n \in 1..MaxSheets }
       /\ loadable = "ok" /\ k \in KValues
       /\ vanilla \in BOOLEAN /\ output_path \in BOOLEAN
    \/ /\ workbook = <<>>
       /\ loadable \in {"missing", "corrupt"} /\ k \in KValues
       /\ vanilla \in BOOLEAN /\ output_path \in BOOLEAN

Init ==
    /\ InitInputs
    /\ pc = "start" /\ idx = 0 /\ cur = BlankCur
    /\ sheets_encoding = <<>> /\ metrics_sheets = <<>> /\ totals = ZeroTotals
    /\ result = NoResult /\ output_file = NoFile
    /\ MergerIdle
    /\ RatioIdle
    /\ AggIdle
    /\ CosIdle
    /\ CallIdle

sheet == workbook[idx]

\* ------------------------------------------------------------------ actions
\* The except clauses with "except Exception" left out: any failure other
\* than a missing file leaves the call by an exception.
load_failure_result_missing_only(why) ==
    IF why = "missing" THEN NoneResult ELSE RaisedResult

\* What the call returns when load_workbook raises: both except clauses
\* return None.
load_failure_result(why) == NoneResult

\* vanilla_encode: its except clause returns None.
vanilla_load_failure_result(why) == NoneResult

\* if vanilla: return vanilla_encode(excel_path, output_path)
CallVanilla ==
    /\ pc = "start" /\ vanilla
    /\ pc' = "vanilla"
    /\ UNCHANGED <<workbook, loadable, k, vanilla, output_path, idx, cur,
                   sheets_encoding, metrics_sheets, totals, result,
                   output_file, outside_encoder>>

\* load_workbook raises: the except clauses return.
LoadFailure ==
    /\ pc = "start" /\ ~vanilla /\ loadable # "ok"
    /\ result' = load_failure_result(loadable)
    /\ pc' = "done"
    /\ UNCHANGED <<workbook, loadable, k, vanilla, output_path, idx, cur,
                   sheets_encoding, metrics_sheets, totals, output_file,
                   outside_encoder>>

LoadWorkbook ==
    /\ pc = "start" /\ ~vanilla /\ loadable = "ok"
    /\ pc' = "sheet"
    /\ idx' = 1
    /\ sheets_encoding' = <<>>
    /\ metrics_sheets' = <<>>
    /\ totals' = ZeroTotals
    /\ UNCHANGED <<workbook, loadable, k, vanilla, output_path, cur, result,
                   output_file, outside_encoder>>

\* The skip test with "or" for "and".
skip_sheet_either(sh) == sh.max_row <= 1 \/ sh.max_column <= 1

\* if sheet.max_row <= 1 and sheet.max_column <= 1: continue
skip_sheet(sh) == sh.max_row <= 1 /\ sh.max_column <= 1

SkipSheet ==
    /\ pc = "sheet" /\ idx <= Len(workbook)
    /\ skip_sheet(sheet)
    /\ idx' = idx + 1
    /\ UNCHANGED <<workbook, loadable, k, vanilla, output_path, pc, cur,
                   sheets_encoding, metrics_sheets, totals, result,
                   output_file, outside_encoder>>

BeginSheet ==
    /\ pc = "sheet" /\ idx <= Len(workbook)
    /\ ~skip_sheet(sheet)
    /\ cur' = [BlankCur EXCEPT !.original_tokens =
                    cells_tokens(sheet, SortedSeq(1..sheet.max_row),
                                 SortedSeq(1..sheet.max_column))]
    /\ pc' = "anchors"
    /\ UNCHANGED <<workbook, loadable, k, vanilla, output_path, idx,
                   sheets_encoding, metrics_sheets, totals, result,
                   output_file, outside_encoder>>

\* find_boundary_candidates, steps 1 and 2.
ComposeCandidates ==
    /\ pc = "anchors"
    /\ cur' = [cur EXCEPT !.candidates = compose_candidates(sheet)]
    /\ pc' = "filter"
    /\ UNCHANGED <<workbook, loadable, k, vanilla, output_path, idx,
                   sheets_encoding, metrics_sheets, totals, result,
                   output_file, outside_encoder>>

\* find_boundary_candidates, step 3.
FilterUnreasonable ==
    /\ pc = "filter"
    /\ cur' = [cur EXCEPT !.candidates =
                    filter_unreasonable_candidates(sheet, cur.candidates)]
    /\ pc' = "suppress"
    /\ UNCHANGED <<workbook, loadable, k, vanilla, output_path, idx,
                   sheets_encoding, metrics_sheets, totals, result,
                   output_file, outside_encoder>>

\* find_boundary_candidates, step 4.
FilterOverlapping ==
    /\ pc = "suppress"
    /\ cur' = [cur EXCEPT !.candidates =
                    filter_overlapping_candidates(sheet, cur.candidates)]
    /\ pc' = "derive"
    /\ UNCHANGED <<workbook, loadable, k, vanilla, output_path, idx,
                   sheets_encoding, metrics_sheets, totals, result,
                   output_file, outside_encoder>>

\* find_boundary_candidates, step 5, and the rest of find_structural_anchors.
FindAnchors ==
    /\ pc = "derive"
    /\ LET boundary == derive_anchors(cur.candidates)
           a == expand_anchors(sheet, boundary, k)
       IN  cur' = [cur EXCEPT !.boundary_rows = boundary[1],
                              !.boundary_cols = boundary[2],
                              !.row_anchors = a[1], !.col_anchors = a[2]]
    /\ pc' = "extract"
    /\ UNCHANGED <<workbook, loadable, k, vanilla, output_path, idx,
                   sheets_encoding, metrics_sheets, totals, result,
                   output_file, outside_encoder>>

ExtractAndCompress ==
    /\ pc = "extract"
    /\ LET near == extract_cells_near_anchors(sheet, cur.row_anchors,
                                              cur.col_anchors, 0)
           kept == compress_homogeneous_regions(sheet, near[1], near[2])
       IN  cur' = [cur EXCEPT !.near_rows = near[1], !.near_cols = near[2],
                              !.kept_rows = kept[1], !.kept_cols = kept[2],
                              !.anchor_tokens =
                                    cells_tokens(sheet, kept[1], kept[2])]
    /\ pc' = "index"
    /\ UNCHANGED <<workbook, loadable, k, vanilla, output_path, idx,
                   sheets_encoding, metrics_sheets, totals, result,
                   output_file, outside_encoder>>

BuildIndex ==
    /\ pc = "index"
    /\ LET ix == create_inverted_index(sheet, cur.kept_rows, cur.kept_cols)
       IN  cur' = [cur EXCEPT !.inverted_index = ix[1], !.format_map = ix[2]]
    /\ pc' = "merge"
    /\ UNCHANGED <<workbook, loadable, k, vanilla, output_path, idx,
                   sheets_encoding, metrics_sheets, totals, result,
                   output_file, outside_encoder>>

MergeRanges ==
    /\ pc = "merge"
    /\ LET merged_index == create_inverted_index_translation(cur.inverted_index)
       IN  cur' = [cur EXCEPT !.merged_index = merged_index,
                              !.index_tokens = index_json_len(merged_index)]
    /\ pc' = "formats"
    /\ UNCHANGED <<workbook, loadable, k, vanilla, output_path, idx,
                   sheets_encoding, metrics_sheets, totals, result,
                   output_file, outside_encoder>>

\* numeric_ranges of spreadsheet_llm_encode.
numeric_ranges_of(sh, type_nfs_map) ==
    aggregate_regions_dfs(sh, numeric_map_of(type_nfs_map))

AggregateFormats ==
    /\ pc = "formats"
    /\ LET type_nfs_map == build_type_nfs_map(sheet, cur.format_map)
           aggregated_formats == aggregate_regions_dfs(sheet, type_nfs_map)
       IN  cur' = [cur EXCEPT
                !.type_nfs_map = type_nfs_map,
                !.aggregated_formats = aggregated_formats,
                !.format_tokens = formats_json_len(aggregated_formats),
                !.numeric_ranges = numeric_ranges_of(sheet, type_nfs_map)]
    /\ pc' = "assemble"
    /\ UNCHANGED <<workbook, loadable, k, vanilla, output_path, idx,
                   sheets_encoding, metrics_sheets, totals, result,
                   output_file, outside_encoder>>

sheet_encoding_of(c) ==
    [structural_anchors |->
        [rows |-> c.row_anchors,
         columns |-> [i \in DOMAIN c.col_anchors |->
                        get_column_letter(c.col_anchors[i])]],
     cells |-> c.merged_index,
     formats |-> c.aggregated_formats,
     numeric_ranges |-> c.numeric_ranges]

\* The counts of the first two stages recorded under each other's name.
sheet_metrics_of_stages_swapped(c, final_tokens) ==
    [original_tokens |-> c.anchor_tokens,
     after_anchor_tokens |-> c.original_tokens,
     after_inverted_index_tokens |-> c.index_tokens,
     after_format_tokens |-> c.format_tokens,
     final_tokens |-> final_tokens,
     anchor_ratio |->
        calculate_compression_ratio(c.original_tokens, c.anchor_tokens),
     inverted_index_ratio |->
        calculate_compression_ratio(c.original_tokens, c.index_tokens),
     format_ratio |->
        calculate_compression_ratio(c.original_tokens, c.format_tokens),
     overall_ratio |->
        calculate_compression_ratio(c.original_tokens, final_tokens)]

sheet_metrics_of(c, final_tokens) ==
    [original_tokens |-> c.original_tokens,
     after_anchor_tokens |-> c.anchor_tokens,
     after_inverted_index_tokens |-> c.index_tokens,
     after_format_tokens |-> c.format_tokens,
     final_tokens |-> final_tokens,
     anchor_ratio |->
        calculate_compression_ratio(c.original_tokens, c.anchor_tokens),
     inverted_index_ratio |->
        calculate_compression_ratio(c.original_tokens, c.index_tokens),
     format_ratio |->
        calculate_compression_ratio(c.original_tokens, c.format_tokens),
     overall_ratio |->
        calculate_compression_ratio(c.original_tokens, final_tokens)]

\* d[key] = value of a dict: a new key goes last, a known key keeps its place.
DictSet(d, key, value) ==
    LET i == KeyIndex(d, key)
    IN  IF i = 0 THEN Append(d, [k |-> key, v |-> value])
        ELSE [d EXCEPT ![i].v = value]

Assemble ==
    /\ pc = "assemble"
    /\ LET enc == sheet_encoding_of(cur)
           final_tokens == encoding_json_len(enc)
       IN  /\ sheets_encoding' = DictSet(sheets_encoding, SheetName(idx), enc)
           /\ metrics_sheets' = DictSet(metrics_sheets, SheetName(idx),
                                        sheet_metrics_of(cur, final_tokens))
           /\ totals' =
                [original |-> totals.original + cur.original_tokens,
                 after_anchor |-> totals.after_anchor + cur.anchor_tokens,
                 after_inverted_index |->
                    totals.after_inverted_index + cur.index_tokens,
                 after_format |-> totals.after_format + cur.format_tokens,
                 final |-> totals.final + final_tokens]
    /\ idx' = idx + 1
    /\ pc' = "sheet"
    /\ UNCHANGED <<workbook, loadable, k, vanilla, output_path, cur, result,
                   output_file, outside_encoder>>

\* The overall block filled from the locals of the last sheet of the loop in
\* place of the running totals.
overall_metrics_of_last_sheet(t) ==
    [original_tokens |-> cur.original_tokens,
     after_anchor_tokens |-> cur.anchor_tokens,
     after_inverted_index_tokens |-> cur.index_tokens,
     after_format_tokens |-> cur.format_tokens,
     final_tokens |-> t.final,
     anchor_ratio |->
        calculate_compression_ratio(cur.original_tokens, cur.anchor_tokens),
     inverted_index_ratio |->
        calculate_compression_ratio(cur.original_tokens, cur.index_tokens),
     format_ratio |->
        calculate_compression_ratio(cur.original_tokens, cur.format_tokens),
     overall_ratio |-> calculate_compression_ratio(cur.original_tokens, t.final)]

overall_metrics(t) ==
    [original_tokens |-> t.original,
     after_anchor_tokens |-> t.after_anchor,
     after_inverted_index_tokens |-> t.after_inverted_index,
     after_format_tokens |-> t.after_format,
     final_tokens |-> t.final,
     anchor_ratio |-> calculate_compression_ratio(t.original, t.after_anchor),
     inverted_index_ratio |->
        calculate_compression_ratio(t.original, t.after_inverted_index),
     format_ratio |-> calculate_compression_ratio(t.original, t.after_format),
     overall_ratio |-> calculate_compression_ratio(t.original, t.final)]

\* After the loop: the document is assembled, saved and returned.
Finish ==
    /\ pc = "sheet" /\ idx > Len(workbook)
    /\ LET full_encoding ==
            [kind |-> "doc",
             sheets |-> sheets_encoding,
             compression_metrics |->
                [sheets |-> metrics_sheets, overall |-> overall_metrics(totals)]]
       IN  /\ result' = full_encoding
           /\ output_file' = IF output_path THEN full_encoding ELSE output_file
    /\ pc' = "done"
    /\ UNCHANGED <<workbook, loadable, k, vanilla, output_path, idx, cur,
                   sheets_encoding, metrics_sheets, totals, outside_encoder>>

\* vanilla_encode: load_workbook raises.
VanillaLoadFailure ==
    /\ pc = "vanilla" /\ loadable # "ok"
    /\ result' = vanilla_load_failure_result(loadable)
    /\ pc' = "done"
    /\ UNCHANGED <<workbook, loadable, k, vanilla, output_path, idx, cur,
                   sheets_encoding, metrics_sheets, totals, output_file,
                   outside_encoder>>

VanillaEncode ==
    /\ pc = "vanilla" /\ loadable = "ok"
    /\ LET content == vanilla_content(workbook)
       IN  /\ result' = [kind |-> "vanilla", content |-> content]
           /\ output_file' = IF output_path
                             THEN [kind |-> "text", content |-> content[1].v]
                             ELSE output_file
    /\ pc' = "done"
    /\ UNCHANGED <<workbook, loadable, k, vanilla, output_path, idx, cur,
                   sheets_encoding, metrics_sheets, totals, outside_encoder>>

Next ==
    \/ CallVanilla
    \/ LoadFailure
    \/ LoadWorkbook
    \/ SkipSheet
    \/ BeginSheet
    \/ ComposeCandidates
    \/ FilterUnreasonable
    \/ FilterOverlapping
    \/ FindAnchors
    \/ ExtractAndCompress
    \/ BuildIndex
    \/ MergeRanges
    \/ AggregateFormats
    \/ Assemble
    \/ Finish
    \/ VanillaLoadFailure
    \/ VanillaEncode

Spec == Init /\ [][Next]_vars

\* ------------------------------------------- the sweep of _merge_refs alone
MergeGrid == (1..MergeRows) \X (1..MergeCols)

\* The addresses of S as a list: ascending or descending, and with the first
\* address once more at the end when dup.
RefList(S, desc, dup) ==
    LET asc == SortedPairs(S)
        n == Len(asc)
        ordered == [i \in 1..n |->
                        IF desc THEN CellRef(asc[n + 1 - i][1], asc[n + 1 - i][2])
                        ELSE CellRef(asc[i][1], asc[i][2])]
    IN  IF dup THEN Append(ordered, ordered[1]) ELSE ordered

\* {A1, B1, C1, B2, A3, B3, C3}: two bars joined by one cell.
IShapeBucket ==
    {<<1, 1>>, <<1, 2>>, <<1, 3>>, <<2, 2>>, <<3, 1>>, <<3, 2>>, <<3, 3>>}

\* {B1, A2, B2, C2}: a cell on top of the middle of a bar.
InvertedTBucket == {<<1, 2>>, <<2, 1>>, <<2, 2>>, <<2, 3>>}

NamedBuckets == {IShapeBucket, InvertedTBucket}

\* A call of _merge_refs on the addresses of a bucket: every non-empty subset
\* of the merge grid and the named buckets, in ascending or descending order,
\* with or without a duplicate.
InitMerge ==
    /\ EncoderIdle
    /\ RatioIdle
    /\ AggIdle
    /\ CosIdle
    /\ CallIdle
    /\ m_src \in ((SUBSET MergeGrid) \ {{}}) \cup NamedBuckets
    /\ \E desc \in BOOLEAN, dup \in BOOLEAN : m_refs = RefList(m_src, desc, dup)
    /\ m_pc = "parse"
    /\ m_cell_set = {} /\ m_order = <<>>
    /\ m_st = [processed |-> {}, ranges |-> <<>>]

\* coords, cell_set, processed and ranges are set up.
MergeParse ==
    /\ m_pc = "parse"
    /\ m_cell_set' = merge_coords(m_refs)
    /\ m_order' = SortedPairs(merge_coords(m_refs))
    /\ m_st' = [processed |-> {}, ranges |-> <<>>]
    /\ m_pc' = "sweep"
    /\ UNCHANGED <<m_src, m_refs, outside_merger>>

\* One iteration of "for row, col in sorted(coords)".
MergeSweepStep ==
    /\ m_pc = "sweep" /\ Len(m_order) > 0
    /\ m_st' = merge_step(m_cell_set, m_st, Head(m_order))
    /\ m_order' = Tail(m_order)
    /\ UNCHANGED <<m_pc, m_src, m_refs, m_cell_set, outside_merger>>

MergeReturn ==
    /\ m_pc = "sweep" /\ Len(m_order) = 0
    /\ m_pc' = "done"
    /\ UNCHANGED <<m_src, m_refs, m_cell_set, m_order, m_st, outside_merger>>

NextMerge == MergeParse \/ MergeSweepStep \/ MergeReturn

SpecMerge == InitMerge /\ [][NextMerge]_vars

\* ------------------------------- calculate_compression_ratio on its own
\* A call of calculate_compression_ratio with any two counts, beside the
\* calls the encoder makes.
InitRatio ==
    /\ EncoderIdle
    /\ MergerIdle
    /\ AggIdle
    /\ CosIdle
    /\ CallIdle
    /\ r_pc = "call"
    /\ r_original \in 0..MaxTokens
    /\ r_compressed \in 0..MaxTokens
    /\ r_ret = <<0, 1>>

RatioCall ==
    /\ r_pc = "call"
    /\ r_ret' = calculate_compression_ratio(r_original, r_compressed)
    /\ r_pc' = "done"
    /\ UNCHANGED <<r_original, r_compressed, outside_ratio>>

NextRatio == Next \/ RatioCall

SpecRatio == (Init \/ InitRatio) /\ [][NextRatio]_vars

\* ------------------------------- the region loop of the format aggregator
\* The semantic keys of test_aggregate_regions_dfs.
IntegerKey == [nfs |-> "General", type |-> "integer"]

TextKey == [nfs |-> "General", type |-> "text"]

\* format_map of test_aggregate_regions_dfs, on the 4 x 5 sheet of setUp.
TestFormatMap ==
    <<[k |-> IntegerKey,
       v |-> <<CellRef(2, 1), CellRef(2, 2), CellRef(3, 1), CellRef(3, 2)>>],
      [k |-> TextKey, v |-> <<CellRef(4, 4), CellRef(4, 5)>>]>>

\* The maps the loop is run on: one bucket of any cells of the grid,
\* ascending or descending, alone or before or after a bucket of one address
\* of the first row (which may also be in the other bucket); and the map of
\* the test.
\* One bucket holding a row one cell longer than the longest region.
LongRowMap ==
    <<[k |-> IntegerKey,
       v |-> [c \in 1..(MaxRegionSide + 1) |-> CellRef(1, c)]]>>

InitAgg ==
    /\ EncoderIdle
    /\ MergerIdle
    /\ RatioIdle
    /\ CosIdle
    /\ CallIdle
    /\ \/ /\ a_sheet = [max_row |-> MergeRows, max_column |-> MergeCols]
          /\ \E S \in (SUBSET MergeGrid) \ {{}}, desc \in BOOLEAN :
                LET big == [k |-> IntegerKey, v |-> RefList(S, desc, FALSE)]
                IN  \/ a_map = <<big>>
                    \/ \E p \in { q \in MergeGrid : q[1] = 1 } :
                        LET small == [k |-> TextKey,
                                      v |-> <<CellRef(p[1], p[2])>>]
                        IN  a_map \in {<<big, small>>, <<small, big>>}
       \/ /\ a_sheet = [max_row |-> 4, max_column |-> 5]
          /\ a_map = TestFormatMap
       \/ /\ a_sheet = [max_row |-> 1, max_column |-> MaxRegionSide + 1]
          /\ a_map = LongRowMap
    /\ a_pc = "scan" /\ a_i = 1 /\ a_j = 1
    /\ a_st = [processed |-> {}, out |-> <<>>]

\* One iteration of "for start_cell in cells".
AggStep ==
    /\ a_pc = "scan" /\ a_i <= Len(a_map) /\ a_j <= Len(a_map[a_i].v)
    /\ a_st' = region_step(a_sheet, a_map[a_i].k, Range(a_map[a_i].v), a_st,
                           a_map[a_i].v[a_j])
    /\ a_j' = a_j + 1
    /\ UNCHANGED <<a_pc, a_sheet, a_map, a_i, outside_agg>>

\* The cells of one key are done: the next key of the map.
AggNextKey ==
    /\ a_pc = "scan" /\ a_i <= Len(a_map) /\ a_j > Len(a_map[a_i].v)
    /\ a_i' = a_i + 1
    /\ a_j' = 1
    /\ UNCHANGED <<a_pc, a_sheet, a_map, a_st, outside_agg>>

AggReturn ==
    /\ a_pc = "scan" /\ a_i > Len(a_map)
    /\ a_pc' = "done"
    /\ UNCHANGED <<a_sheet, a_map, a_i, a_j, a_st, outside_agg>>

NextAgg == AggStep \/ AggNextKey \/ AggReturn

SpecAgg == InitAgg /\ [][NextAgg]_vars

\* ------------------------------------------------- chain of spreadsheet
\* str.lower(), character by character.
lower(s) ==
    [i \in DOMAIN s |->
        IF s[i] \in Range(Letters)
        THEN LowerLetters[LetterValue(s[i])] ELSE s[i]]

\* str.find(sub, start): the first index >= start at which sub occurs, or 0.
find(s, sub, start) ==
    LET at == { i \in start..(Len(s) - Len(sub) + 1) :
                    SubSeq(s, i, i + Len(sub) - 1) = sub }
    IN  IF at = {} THEN 0 ELSE CHOOSE i \in at : \A j \in at : i <= j

\* sub in s
contains(s, sub) == find(s, sub, 1) # 0

RECURSIVE replace(_, _, _)
\* s.replace(old, new), for a non-empty old: every occurrence, left to right.
replace(s, old, new) ==
    LET i == find(s, old, 1)
    IN  IF i = 0 THEN s
        ELSE SubSeq(s, 1, i - 1) \o new
             \o replace(SubSeq(s, i + Len(old), Len(s)), old, new)

RECURSIVE split(_)
\* s.split(): the maximal runs of characters that are not white space.
split(s) ==
    IF Len(s) = 0 THEN <<>>
    ELSE IF isspace(s[1]) THEN split(Tail(s))
    ELSE LET spaces == { i \in DOMAIN s : isspace(s[i]) }
             stop == IF spaces = {} THEN Len(s) + 1
                     ELSE CHOOSE i \in spaces : \A j \in spaces : i <= j
         IN  <<SubSeq(s, 1, stop - 1)>> \o split(SubSeq(s, stop, Len(s)))

\* json.dumps of a list of strings, and of a sheet's data {"cells": {...}}
\* (the texts tried hold no character that json.dumps escapes).
json_dumps_list(l) ==
    <<"[">> \o Join([i \in DOMAIN l |-> <<"\"">> \o l[i] \o <<"\"">>],
                    <<",", " ">>) \o <<"]">>

json_dumps(sheet_data) ==
    <<"{", "\"">> \o <<"c", "e", "l", "l", "s">> \o <<"\"", ":", " ", "{">>
    \o Join([i \in DOMAIN sheet_data.cells |->
                <<"\"">> \o sheet_data.cells[i].k \o <<"\"", ":", " ">>
                \o json_dumps_list(sheet_data.cells[i].v)],
            <<",", " ">>)
    \o <<"}", "}">>

PLACEHOLDER_ENCODED == <<"[", "E", "n", "c", "o", "d", "e", "d", " ", "S",
    "p", "r", "e", "a", "d", "s", "h", "e", "e", "t", " ", "w", "i", "t",
    "h", " ", "c", "o", "m", "p", "r", "e", "s", "s", "i", "o", "n", "]">>

PLACEHOLDER_QUESTION == <<"[", "Q", "u", "e", "s", "t", "i", "o", "n", "]">>

\* QA_STAGE1_PROMPT_TEMPLATE.  The text from "INSTRUCTION:" to "INPUT:" is
\* one symbol: it contains neither placeholder and nothing looks inside it.
QA_STAGE1_PROMPT_TEMPLATE ==
    <<"\nINSTRUCTION: ... INPUT:\n">> \o PLACEHOLDER_ENCODED \o <<"\n">>
    \o PLACEHOLDER_QUESTION \o <<"\n">>

\* The pattern [A-Z]+\d+:[A-Z]+\d+ matching the whole of s.
is_range_text(s) ==
    \E a, b, c \in DOMAIN s :
        /\ 1 <= a /\ a < b /\ b + 1 <= c /\ c < Len(s)
        /\ \A i \in 1..a : s[i] \in Range(Letters)
        /\ \A i \in (a + 1)..(b - 1) : isdigit(s[i])
        /\ a + 1 <= b - 1
        /\ s[b] = ":"
        /\ \A i \in (b + 1)..c : s[i] \in Range(Letters)
        /\ \A i \in (c + 1)..Len(s) : isdigit(s[i])

\* re.search(r"\'([A-Z]+\d+:[A-Z]+\d+)\'", llm_response): group 1 of the
\* leftmost match, or None.
search_range(llm_response) ==
    LET quotes == { i \in DOMAIN llm_response : llm_response[i] = "'" }
        hits == { p \in quotes \X quotes :
                    /\ p[1] < p[2]
                    /\ is_range_text(SubSeq(llm_response, p[1] + 1, p[2] - 1)) }
    IN  IF hits = {} THEN None
        ELSE LET m == CHOOSE p \in hits : \A q \in hits : p[1] <= q[1]
             IN  Some(SubSeq(llm_response, m[1] + 1, m[2] - 1))

\* score of one sheet: the cell values in which some query token occurs.
sheet_score(sheet_data, query_tokens) ==
    Cardinality({ i \in DOMAIN sheet_data.cells :
        \E token \in query_tokens :
            contains(lower(sheet_data.cells[i].k), token) })

RECURSIVE best_sheet_scan(_, _, _, _)
\* The loop of _find_relevant_sheet over the sheets that are left.
best_sheet_scan(sheets, query_tokens, best_score, best_sheet) ==
    IF Len(sheets) = 0 THEN best_sheet
    ELSE LET score == sheet_score(Head(sheets).v, query_tokens)
         IN  IF score > best_score
             THEN best_sheet_scan(Tail(sheets), query_tokens, score,
                                  Some(Head(sheets).k))
             ELSE best_sheet_scan(Tail(sheets), query_tokens, best_score,
                                  best_sheet)

_find_relevant_sheet(encoding, query) ==
    LET query_tokens == { lower(t) : t \in Range(split(query)) }
    IN  best_sheet_scan(encoding, query_tokens, 0, None)

\* encoding["sheets"][sheet_name]
sheet_data_of(encoding, sheet_name) ==
    encoding[CHOOSE i \in DOMAIN encoding : encoding[i].k = sheet_name].v

\* The prompt identify_table builds for a sheet's data.
stage1_prompt(compressed_sheet_data, query) ==
    replace(replace(QA_STAGE1_PROMPT_TEMPLATE, PLACEHOLDER_ENCODED,
                    json_dumps(compressed_sheet_data)),
            PLACEHOLDER_QUESTION, query)

\* The cells maps of the encodings tried: none, the one of
\* test_chain_of_spreadsheet.setUp, and one value of two words.
TestCells ==
    <<[k |-> <<"H", "e", "a", "d", "e", "r", "1">>, v |-> <<<<"A", "1">>>>],
      [k |-> <<"V", "a", "l", "u", "e", "1">>, v |-> <<<<"A", "2">>>>]>>

CellsMaps ==
    { <<>>, TestCells, <<[k |-> <<"T", "o", "t", "a", "l", " ", "v", "a",
        "l", "u", "e">>, v |-> <<<<"B", "1">>>>]>> }

\* sample_query of the test, and queries with a word of a cell value.
sample_query == <<"W", "h", "a", "t", " ", "i", "s", " ", "t", "h", "e", " ",
    "v", "a", "l", "u", "e", "?">>

Queries == { sample_query, <<>>, <<"v", "a", "l", "u", "e">>, <<"S", "u",
    "m", " ", "o", "f", " ", "H", "E", "A", "D", "E", "R", "1">> }

\* What the LLM may answer: the test's answer, an answer with a lower-case
\* range, and an answer without a range.
sample_response == <<"[", "'", "r", "a", "n", "g", "e", "'", ":", " ", "'",
    "A", "1", ":", "B", "2", "'", "]">>

Responses == { sample_response, <<"[", "'", "r", "a", "n", "g", "e", "'",
    ":", " ", "'", "a", "1", ":", "b", "2", "'", "]">>, <<"[", "B", "3",
    "]">> }

\* A call of identify_table(encoding, query) on an encoding of one or two
\* sheets.
InitCos ==
    /\ \E n \in 1..MaxSheets : \E cells \in [1..n -> CellsMaps] :
            c_encoding = [i \in 1..n |->
                            [k |-> SheetName(i), v |-> [cells |-> cells[i]]]]
    /\ c_query \in Queries
    /\ c_pc = "start" /\ c_calls = <<>> /\ c_response = <<>> /\ c_ret = None
    /\ EncoderIdle /\ MergerIdle /\ RatioIdle /\ AggIdle /\ CallIdle

\* identify_table up to its call of the LLM, or to its return of None when
\* no sheet is found relevant.
IdentifyTable ==
    /\ c_pc = "start"
    /\ LET sheet_name == _find_relevant_sheet(c_encoding, c_query)
       IN  IF ~sheet_name.some \/ Len(sheet_name.v) = 0
           THEN /\ c_ret' = None
                /\ c_pc' = "done"
                /\ UNCHANGED c_calls
           ELSE /\ c_calls' = Append(c_calls,
                        stage1_prompt(sheet_data_of(c_encoding, sheet_name.v),
                                      c_query))
                /\ c_pc' = "llm"
                /\ UNCHANGED c_ret
    /\ UNCHANGED <<c_encoding, c_query, c_response, outside_cos>>

\* _call_llm(prompt) answers.
CallLlm ==
    /\ c_pc = "llm"
    /\ c_response' \in Responses
    /\ c_pc' = "parse"
    /\ UNCHANGED <<c_encoding, c_query, c_calls, c_ret, outside_cos>>

\* The rest of identify_table: the range parsed from the answer, or None.
IdentifyTableReturn ==
    /\ c_pc = "parse"
    /\ c_ret' = search_range(c_response)
    /\ c_pc' = "done"
    /\ UNCHANGED <<c_encoding, c_query, c_calls, c_response, outside_cos>>

NextCos == IdentifyTable \/ CallLlm \/ IdentifyTableReturn

SpecCos == InitCos /\ [][NextCos]_vars

\* ------------------------------------------------ functions on their own
\* The cells a row given to is_header_row is made of: empty, a bold, a
\* centred and a plain integer, and the plain texts "ID", "A" and "id".
HeaderCells ==
    { EmptyCell,
      MakeCell(IntValue(1), TRUE, "none", "none", "General"),
      MakeCell(IntValue(1), FALSE, "center", "none", "General"),
      Plain(IntValue(1)),
      Plain(StrValue(S_ID)),
      Plain(StrValue(<<"A">>)),
      Plain(StrValue(<<"i", "d">>)) }

\* The sheet of one row holding the given cells.
RowSheet(cells) ==
    [max_row |-> 1, max_column |-> Len(cells),
     cells |-> [p \in {1} \X (1..Len(cells)) |-> cells[p[2]]],
     merged |-> {}]

\* A call of is_header_row(sheet, 1) on a sheet of one row.
InitHeader ==
    /\ AllIdle
    /\ f_pc = "call" /\ f_ret = <<>>
    /\ \E cells \in [1..MaxHeaderCols -> HeaderCells] :
            f_args = [sheet |-> RowSheet(cells), row_idx |-> 1]

IsHeaderRowCall ==
    /\ f_pc = "call"
    /\ f_ret' = is_header_row(f_args.sheet, f_args.row_idx)
    /\ f_pc' = "done"
    /\ UNCHANGED <<f_args, outside_call>>

SpecHeader == InitHeader /\ [][IsHeaderRowCall]_vars

\* The sheet of NmsRows rows whose row h is a bold header (none when h = 0).
HeaderAtSheet(h) ==
    GenSheet([r \in 1..NmsRows |-> IF r = h THEN "head" ELSE "nums"], NmsCols)

\* The boxes <<r1, c1, r2, c2>> of the grid, r1 <= r2 and c1 <= c2.
GridBoxes ==
    { b \in (1..NmsRows) \X (1..NmsCols) \X (1..NmsRows) \X (1..NmsCols) :
        b[1] <= b[3] /\ b[2] <= b[4] }

\* A call of filter_overlapping_candidates(sheet, candidates) on a non-empty
\* list of boxes, in any order and with repetitions.
InitNms ==
    /\ AllIdle
    /\ f_pc = "call" /\ f_ret = <<>>
    /\ \E h \in 0..NmsRows, n \in 1..MaxBoxes :
        \E candidates \in [1..n -> GridBoxes] :
            f_args = [sheet |-> HeaderAtSheet(h), candidates |-> candidates]

FilterOverlappingCall ==
    /\ f_pc = "call"
    /\ f_ret' = filter_overlapping_candidates(f_args.sheet, f_args.candidates)
    /\ f_pc' = "done"
    /\ UNCHANGED <<f_args, outside_call>>

SpecNms == InitNms /\ [][FilterOverlappingCall]_vars

\* The kinds of row of the sheets create_inverted_index is called on.
IndexKinds == {"blank", "zeros", "head"}

\* The merge ranges of at least two cells of the grid.
IndexMerges ==
    { [r1 |-> b[1], c1 |-> b[2], r2 |-> b[3], c2 |-> b[4]] :
        b \in { x \in (1..IndexRows) \X (1..IndexCols)
                       \X (1..IndexRows) \X (1..IndexCols) :
                    /\ x[1] <= x[3] /\ x[2] <= x[4]
                    /\ (x[1] < x[3] \/ x[2] < x[4]) } }

\* sheet.merge_cells(m): every cell of the range but its start cell becomes a
\* MergedCell, whose value is None.
WithMerge(ws, m) ==
    [ws EXCEPT
        !.cells = [p \in DOMAIN ws.cells |->
                      IF InRange(p[1], p[2], m) /\ p # <<m.r1, m.c1>>
                      THEN [ws.cells[p] EXCEPT !.value = NoneValue]
                      ELSE ws.cells[p]],
        !.merged = {m}]

\* The sheet whose cell p raises when its style is read.
WithFault(ws, p) == [ws EXCEPT !.cells[p] = Faulty(ws.cells[p])]

\* A call of create_inverted_index(sheet, kept_rows, kept_cols) on a sheet
\* with at most one merge range or one faulty cell, for any retained window.
InitIndex ==
    /\ AllIdle
    /\ f_pc = "call" /\ f_ret = <<>>
    /\ \E kinds \in [1..IndexRows -> IndexKinds],
          rows \in SUBSET (1..IndexRows), cols \in SUBSET (1..IndexCols) :
          LET base == GenSheet(kinds, IndexCols)
          IN  \E ws \in {base}
                    \cup { WithMerge(base, m) : m \in IndexMerges }
                    \cup { WithFault(base, p) : p \in DOMAIN base.cells } :
                f_args = [sheet |-> ws, kept_rows |-> SortedSeq(rows),
                          kept_cols |-> SortedSeq(cols)]

CreateInvertedIndexCall ==
    /\ f_pc = "call"
    /\ f_ret' = create_inverted_index(f_args.sheet, f_args.kept_rows,
                                      f_args.kept_cols)
    /\ f_pc' = "done"
    /\ UNCHANGED <<f_args, outside_call>>

SpecIndex == InitIndex /\ [][CreateInvertedIndexCall]_vars

\* A call of extract_k_neighborhood(indices, k, max_index) on a sorted list of
\* indices within 1..max_index.
InitNeighborhood ==
    /\ AllIdle
    /\ f_pc = "call" /\ f_ret = <<>>
    /\ \E max_index \in 1..MaxIndex, n \in 0..MaxNeighborhood :
          \E S \in SUBSET (1..max_index) :
            f_args = [indices |-> SortedSeq(S), k |-> n,
                      max_index |-> max_index]

ExtractKNeighborhoodCall ==
    /\ f_pc = "call"
    /\ f_ret' = extract_k_neighborhood(f_args.indices, f_args.k,
                                       f_args.max_index)
    /\ f_pc' = "done"
    /\ UNCHANGED <<f_args, outside_call>>

SpecNeighborhood == InitNeighborhood /\ [][ExtractKNeighborhoodCall]_vars

\* The kinds of row of the sheets compress_homogeneous_regions is called on.
CompressKinds == {"zeros", "nums", "text", "fmt"}

\* A call of compress_homogeneous_regions(sheet, rows, cols) on any window of
\* the grid, the empty one and those of one row or one column included.
InitCompress ==
    /\ AllIdle
    /\ f_pc = "call" /\ f_ret = <<>>
    /\ \E kinds \in [1..IndexRows -> CompressKinds],
          rows \in SUBSET (1..IndexRows), cols \in SUBSET (1..IndexCols) :
            f_args = [sheet |-> GenSheet(kinds, IndexCols),
                      rows |-> SortedSeq(rows), cols |-> SortedSeq(cols)]

CompressHomogeneousRegionsCall ==
    /\ f_pc = "call"
    /\ f_ret' = compress_homogeneous_regions(f_args.sheet, f_args.rows,
                                             f_args.cols)
    /\ f_pc' = "done"
    /\ UNCHANGED <<f_args, outside_call>>

SpecCompress == InitCompress /\ [][CompressHomogeneousRegionsCall]_vars

\* ------------------------------------------------------------------ claims
\* The cells a range string covers.
RangeCells(range_str) == BoxCells(range_to_bbox(range_str))

\* The cells covered by the range strings of a list.
CoveredBy(ranges) == UNION { RangeCells(ranges[i]) : i \in DOMAIN ranges }

Disjoint(ranges) ==
    \A i, j \in DOMAIN ranges :
        i # j => RangeCells(ranges[i]) \cap RangeCells(ranges[j]) = {}

\* C1: after every step of the sweep of _merge_refs the ranges emitted so far
\* cover exactly the cells marked processed, no cell twice, and only cells of
\* the bucket; every address visited so far is covered; when the sweep ends
\* the ranges cover exactly the bucket's address set.
C1_PartitionExact ==
    m_pc \in {"sweep", "done"} =>
        /\ Disjoint(m_st.ranges)
        /\ CoveredBy(m_st.ranges) = m_st.processed
        /\ m_st.processed \subseteq m_src
        /\ m_src \ Range(m_order) \subseteq m_st.processed
        /\ m_pc = "done" => CoveredBy(m_st.ranges) = m_src

\* A bucket given with a duplicate and out of order that ends as several
\* ranges, one of them more than one row high.
C1_Witness ==
    /\ m_pc = "done"
    /\ Len(m_refs) > Cardinality(m_src)
    /\ m_refs[1] # CellRef(1, 1)
    /\ Len(m_st.ranges) >= 2
    /\ \E i \in DOMAIN m_st.ranges :
            range_to_bbox(m_st.ranges[i])[3] > range_to_bbox(m_st.ranges[i])[1]

\* d[key] of a dict that holds key.
Lookup(d, key) == d[KeyIndex(d, key)].v

Keys(d) == { d[i].k : i \in DOMAIN d }

\* The loop has just stored the encoding of sheet idx - 1, and cur still holds
\* the locals of that iteration.
JustEncoded == pc = "sheet" /\ idx > 1 /\ ~skip_sheet(workbook[idx - 1])

LastSheet == workbook[idx - 1]

LastEncoding == Lookup(sheets_encoding, SheetName(idx - 1))

\* The cells covered by the ranges of a `cells` (or `formats`) map.
CoveredByMap(d) == UNION { CoveredBy(d[i].v) : i \in DOMAIN d }

A1 == <<"A", "1">>

A2 == <<"A", "2">>

B2 == <<"B", "2">>

\* C2: encoding the sheet A1 = "Header", A2 = 42, B2 = "Data" with k = 1
\* yields a `cells` map with "Header": ["A1"], "42": ["A2"], "Data": ["B2"].
C2_SmallGridExact ==
    (pc = "done" /\ ~vanilla /\ k = 1 /\ workbook = <<SmallGridSheet>>) =>
        LET cells == result.sheets[1].v.cells
        IN  /\ \E i \in DOMAIN cells :
                    cells[i].k = S_Header /\ cells[i].v = <<A1>>
            /\ \E i \in DOMAIN cells :
                    cells[i].k = <<"4", "2">> /\ cells[i].v = <<A2>>
            /\ \E i \in DOMAIN cells :
                    cells[i].k = S_Data /\ cells[i].v = <<B2>>

IsNumericCell(cl) == cl.value.t = "int"

\* C3: an encoded sheet with a numeric cell, none of them in the retained
\* window, still has a non-empty numeric_ranges map.
C3_NumericFallback ==
    JustEncoded =>
        ((/\ \E p \in DOMAIN LastSheet.cells : IsNumericCell(LastSheet.cells[p])
          /\ \A p \in Range(cur.kept_rows) \X Range(cur.kept_cols) :
                ~IsNumericCell(LastSheet.cells[p]))
         => LastEncoding.numeric_ranges # <<>>)

\* Two columns of cols at which row r differs in value or in number format.
RowVaries(sh, r, cols) ==
    \E i, j \in DOMAIN cols :
        \/ sh.cells[<<r, cols[i]>>].value # sh.cells[<<r, cols[j]>>].value
        \/ sh.cells[<<r, cols[i]>>].number_format
                # sh.cells[<<r, cols[j]>>].number_format

ColVaries(sh, c, rows) ==
    \E i, j \in DOMAIN rows :
        \/ sh.cells[<<rows[i], c>>].value # sh.cells[<<rows[j], c>>].value
        \/ sh.cells[<<rows[i], c>>].number_format
                # sh.cells[<<rows[j], c>>].number_format

\* C4: a row kept by compress_homogeneous_regions is a retained row that
\* varies in value or number format over the retained columns (and a kept
\* column likewise over the retained rows), and no cell covered by the
\* `cells` map of the encoding lies in a row or column that does not vary.
C4_HomogeneousEliminated ==
    /\ pc \in {"index", "merge", "formats", "assemble"} =>
        /\ \A r \in Range(cur.kept_rows) :
                r \in Range(cur.near_rows) /\ RowVaries(sheet, r, cur.near_cols)
        /\ \A c \in Range(cur.kept_cols) :
                c \in Range(cur.near_cols) /\ ColVaries(sheet, c, cur.near_rows)
    /\ JustEncoded =>
        \A p \in CoveredByMap(LastEncoding.cells) :
            /\ RowVaries(LastSheet, p[1], cur.near_cols)
            /\ ColVaries(LastSheet, p[2], cur.near_rows)

\* A sheet is encoded whose retained window held a uniform row, which was
\* dropped, and whose `cells` map is not empty.
C4_Witness ==
    /\ JustEncoded
    /\ LastEncoding.cells # <<>>
    /\ \E r \in Range(cur.near_rows) :
            r \notin Range(cur.kept_rows) /\ ~RowVaries(LastSheet, r, cur.near_cols)

\* C5: encoding the sheet of create_workbook_with_homogeneous_rows with k = 1
\* yields a `cells` map that covers A4 and B4 and no cell of row 2 or row 3.
C5_RowFourRetained ==
    (pc = "done" /\ ~vanilla /\ k = 1 /\ workbook = <<HomogeneousRowsSheet>>) =>
        LET covered == CoveredByMap(result.sheets[1].v.cells)
        IN  /\ <<4, 1>> \in covered
            /\ <<4, 2>> \in covered
            /\ \A p \in covered : p[1] \notin {2, 3}

StrictlyIncreasing(s) == \A i \in 1..(Len(s) - 1) : s[i] < s[i + 1]

\* The index of the sheet of the given name.
SheetIndexOf(name) == CHOOSE i \in DOMAIN workbook : SheetName(i) = name

\* C6: for k >= 0 the row anchors returned by find_structural_anchors, and
\* those reported in structural_anchors, are strictly increasing and lie in
\* [1, max_row]; the column anchors likewise in [1, max_column].
C6_AnchorMonotone ==
    k >= 0 =>
        /\ pc \in {"extract", "index", "merge", "formats", "assemble"} =>
            /\ StrictlyIncreasing(cur.row_anchors)
            /\ Range(cur.row_anchors) \subseteq 1..sheet.max_row
            /\ StrictlyIncreasing(cur.col_anchors)
            /\ Range(cur.col_anchors) \subseteq 1..sheet.max_column
        /\ \A e \in Range(sheets_encoding) :
            LET sh == workbook[SheetIndexOf(e.k)]
                rows == e.v.structural_anchors.rows
                cols == [i \in DOMAIN e.v.structural_anchors.columns |->
                            column_index_from_string(
                                e.v.structural_anchors.columns[i])]
            IN  /\ StrictlyIncreasing(rows)
                /\ Range(rows) \subseteq 1..sh.max_row
                /\ StrictlyIncreasing(cols)
                /\ Range(cols) \subseteq 1..sh.max_column

\* Anchors are found with k >= 1 next to the last row of the sheet, where the
\* neighbourhood is clipped.
C6_Witness ==
    /\ pc = "extract" /\ k >= 1
    /\ Len(cur.row_anchors) >= 2
    /\ Len(cur.col_anchors) >= 2
    /\ sheet.max_row \in Range(cur.boundary_rows)

\* The number of entries of dict d under the name of sheet i.
EntriesOf(d, i) == Cardinality({ j \in DOMAIN d : d[j].k = SheetName(i) })

\* C7: in the returned document a sheet has no entry in `sheets` and none in
\* compression_metrics.sheets exactly when max_row <= 1 and max_column <= 1,
\* every other sheet has exactly one entry in each, there is no other entry,
\* and the overall totals are the sums over the entries.
C7_SkipIff ==
    (pc = "done" /\ result.kind = "doc") =>
        LET ms == result.compression_metrics.sheets
            ov == result.compression_metrics.overall
        IN  /\ \A i \in DOMAIN workbook :
                LET n == IF workbook[i].max_row <= 1
                            /\ workbook[i].max_column <= 1
                         THEN 0 ELSE 1
                IN  EntriesOf(result.sheets, i) = n /\ EntriesOf(ms, i) = n
            /\ Keys(result.sheets) \subseteq { SheetName(i) : i \in DOMAIN workbook }
            /\ Keys(ms) = Keys(result.sheets)
            /\ ov.original_tokens
                = SumSeq([i \in DOMAIN ms |-> ms[i].v.original_tokens])
            /\ ov.after_anchor_tokens
                = SumSeq([i \in DOMAIN ms |-> ms[i].v.after_anchor_tokens])
            /\ ov.after_inverted_index_tokens
                = SumSeq([i \in DOMAIN ms |-> ms[i].v.after_inverted_index_tokens])
            /\ ov.after_format_tokens
                = SumSeq([i \in DOMAIN ms |-> ms[i].v.after_format_tokens])
            /\ ov.final_tokens
                = SumSeq([i \in DOMAIN ms |-> ms[i].v.final_tokens])

\* A document for a workbook of a 1 x 1 sheet holding a value and a larger
\* sheet without anchors: only the larger sheet has an entry.
C7_Witness ==
    /\ pc = "done" /\ result.kind = "doc"
    /\ Len(workbook) = 2
    /\ workbook[1].max_row = 1 /\ workbook[1].max_column = 1
    /\ workbook[1].cells[<<1, 1>>].value # NoneValue
    /\ Len(result.sheets) = 1
    /\ result.sheets[1].k = SheetName(2)
    /\ result.sheets[1].v.structural_anchors.rows = <<>>
    /\ result.compression_metrics.overall.original_tokens > 0

\* C8: when the workbook cannot be loaded the call, in either mode, ends
\* with the result None: it raises nothing, processes no sheet, builds no
\* document and writes no output file.
C8_LoadFailureNone ==
    loadable # "ok" =>
        /\ pc \in {"start", "vanilla", "done"}
        /\ result \in {NoResult, NoneResult}
        /\ pc = "done" => result = NoneResult
        /\ sheets_encoding = <<>>
        /\ output_file = NoFile

\* A corrupt file, encoded in compressed mode with an output path, has
\* returned None.
C8_Witness ==
    /\ pc = "done" /\ loadable = "corrupt" /\ ~vanilla /\ output_path
    /\ result = NoneResult

\* C9: a call in compressed mode with a negative k is rejected before the
\* pipeline starts: no sheet is processed, no document is returned and no
\* output file is written.
C9_NegativeKRejected ==
    (k < 0 /\ ~vanilla /\ loadable = "ok") =>
        /\ pc \in {"start", "done"}
        /\ result.kind # "doc"
        /\ sheets_encoding = <<>>
        /\ output_file = NoFile

\* Two ratios <<numerator, denominator>> of the same value.
RatioEq(a, b) == a[1] * b[2] = b[1] * a[2]

\* The sum of one token count over the entries of compression_metrics.sheets.
SheetSum(ms, field) == SumSeq([i \in DOMAIN ms |-> ms[i].v[field]])

\* C11: at every point of the loop each of the five running totals is the sum
\* of that token count over the entries of compression_metrics.sheets, and in
\* the returned document each overall count is that sum and each overall
\* ratio is Ratio(sum of original, sum of that stage).
C11_AggregateMetrics ==
    /\ /\ totals.original = SheetSum(metrics_sheets, "original_tokens")
       /\ totals.after_anchor = SheetSum(metrics_sheets, "after_anchor_tokens")
       /\ totals.after_inverted_index
            = SheetSum(metrics_sheets, "after_inverted_index_tokens")
       /\ totals.after_format = SheetSum(metrics_sheets, "after_format_tokens")
       /\ totals.final = SheetSum(metrics_sheets, "final_tokens")
    /\ (pc = "done" /\ result.kind = "doc") =>
        LET ms == result.compression_metrics.sheets
            ov == result.compression_metrics.overall
            o == SheetSum(ms, "original_tokens")
        IN  /\ ov.original_tokens = o
            /\ ov.after_anchor_tokens = SheetSum(ms, "after_anchor_tokens")
            /\ ov.anchor_ratio
                = calculate_compression_ratio(o,
                        SheetSum(ms, "after_anchor_tokens"))
            /\ ov.inverted_index_ratio
                = calculate_compression_ratio(o,
                        SheetSum(ms, "after_inverted_index_tokens"))
            /\ ov.format_ratio
                = calculate_compression_ratio(o,
                        SheetSum(ms, "after_format_tokens"))
            /\ ov.overall_ratio
                = calculate_compression_ratio(o, SheetSum(ms, "final_tokens"))

\* A document of two encoded sheets whose overall ratio is the ratio of
\* neither sheet and not the mean of the two.
C11_Witness ==
    /\ pc = "done" /\ result.kind = "doc"
    /\ Len(result.compression_metrics.sheets) = 2
    /\ LET ms == result.compression_metrics.sheets
           ov == result.compression_metrics.overall.overall_ratio
           a == ms[1].v.overall_ratio
           b == ms[2].v.overall_ratio
           mean == <<a[1] * b[2] + b[1] * a[2], 2 * a[2] * b[2]>>
       IN  ~RatioEq(ov, a) /\ ~RatioEq(ov, b) /\ ~RatioEq(ov, mean)

\* A ratio <<numerator, denominator>> of the value n.
RatioIs(a, n) == a[2] # 0 /\ a[1] = n * a[2]

\* C12: calculate_compression_ratio(o, c) is 0 when c = 0, 1 when o = 0 and
\* c > 0, and o / c otherwise; the document of a workbook whose sheets are
\* all skipped has overall token counts 0 and overall ratios 0.
C12_CompressionRatio ==
    /\ r_pc = "done" =>
        IF r_compressed = 0 THEN RatioIs(r_ret, 0)
        ELSE IF r_original = 0 THEN RatioIs(r_ret, 1)
        ELSE r_ret[2] # 0 /\ RatioEq(r_ret, <<r_original, r_compressed>>)
    /\ (/\ pc = "done" /\ result.kind = "doc"
        /\ \A i \in DOMAIN workbook :
                workbook[i].max_row <= 1 /\ workbook[i].max_column <= 1) =>
        LET ov == result.compression_metrics.overall
        IN  /\ ov.original_tokens = 0
            /\ ov.after_anchor_tokens = 0
            /\ ov.after_inverted_index_tokens = 0
            /\ ov.after_format_tokens = 0
            /\ ov.final_tokens = 0
            /\ RatioIs(ov.anchor_ratio, 0)
            /\ RatioIs(ov.inverted_index_ratio, 0)
            /\ RatioIs(ov.format_ratio, 0)
            /\ RatioIs(ov.overall_ratio, 0)

\* The call with no original tokens and some compressed tokens has
\* returned 1.
C12_Witness ==
    /\ r_pc = "done" /\ r_original = 0 /\ r_compressed > 0
    /\ RatioIs(r_ret, 1)

RECURSIVE Split(_, _)
\* The pieces of text s between the occurrences of the character sep.
Split(s, sep) ==
    LET at == { i \in DOMAIN s : s[i] = sep }
    IN  IF at = {} THEN <<s>>
        ELSE LET i == CHOOSE x \in at : \A y \in at : x <= y
             IN  <<SubSeq(s, 1, i - 1)>> \o Split(SubSeq(s, i + 1, Len(s)), sep)

\* C13: with vanilla = True no stage of the compressed pipeline runs, and the
\* result has one entry per sheet of the workbook, in order; the text of a
\* sheet splits at line breaks into max_row rows and each row at "|" into
\* max_column items, the item of row r and column c being the address of
\* the cell, a comma and the value ("" for no value).
C13_VanillaRowMajor ==
    (vanilla /\ loadable = "ok") =>
        /\ pc \in {"start", "vanilla", "done"}
        /\ sheets_encoding = <<>>
        /\ pc = "done" =>
            /\ result.kind = "vanilla"
            /\ Len(result.content) = Len(workbook)
            /\ \A i \in DOMAIN workbook :
                LET sh == workbook[i]
                    rows == Split(result.content[i].v, "\n")
                IN  /\ result.content[i].k = SheetName(i)
                    /\ Len(rows) = sh.max_row
                    /\ \A r \in 1..sh.max_row :
                        LET items == Split(rows[r], "|")
                        IN  /\ Len(items) = sh.max_column
                            /\ \A c \in 1..sh.max_column :
                                LET parts == Split(items[c], ",")
                                    v == sh.cells[<<r, c>>].value
                                IN  /\ Len(parts) = 2
                                    /\ ref_coord(parts[1]) = <<r, c>>
                                    /\ parts[1] = CellRef(r, c)
                                    /\ parts[2] = IF v.t = "none" THEN <<>>
                                                  ELSE str(v)

\* A vanilla result for a workbook of a 1 x 1 sheet without a value and the
\* sheet A1 = "Header", A2 = 42, B2 = "Data", with a negative k.
C13_Witness ==
    /\ pc = "done" /\ vanilla /\ k < 0
    /\ Len(workbook) = 2
    /\ workbook[1].max_row = 1 /\ workbook[1].max_column = 1
    /\ workbook[1].cells[<<1, 1>>].value = NoneValue
    /\ workbook[2] = SmallGridSheet
    /\ result.kind = "vanilla"
    /\ Len(result.content) = 2

\* The cells of the address list of key i of the aggregator's map.
BucketCells(i) == { ref_coord(a_map[i].v[n]) : n \in DOMAIN a_map[i].v }

\* The index in the aggregator's map of a key.
MapIndexOf(key) == CHOOSE i \in DOMAIN a_map : a_map[i].k = key

C15_TestSheetBoundaries ==
    (/\ workbook = <<TestWorkbookSheet>>
     /\ pc \in {"extract", "compress", "index", "formats", "metrics"})
        => /\ 4 \in Range(cur.boundary_rows)
           /\ 3 \in Range(cur.boundary_cols)

\* ------------------------------------------------------------------ C16
\* C16: when the encoding has a sheet whose cells map is non-empty,
\* identify_table has called the LLM exactly once when it returns, with a
\* prompt that contains the query and the JSON text of such a sheet's data,
\* and it returns the range parsed from the answer; whatever the query is.
C16_IdentifyTable ==
    (/\ c_pc = "done"
     /\ \E i \in DOMAIN c_encoding : Len(c_encoding[i].v.cells) > 0)
        => /\ Len(c_calls) = 1
           /\ contains(c_calls[1], c_query)
           /\ \E i \in DOMAIN c_encoding :
                /\ Len(c_encoding[i].v.cells) > 0
                /\ contains(c_calls[1], json_dumps(c_encoding[i].v))
           /\ c_ret = search_range(c_response)

\* ------------------------------------------------------------------ C17
LastMetrics == Lookup(metrics_sheets, SheetName(idx - 1))

HasPopulatedCell(s) == \E p \in DOMAIN s.cells : s.cells[p].value.t # "none"

\* len(json.dumps(...)) of a sheet encoding with no anchors and empty maps.
EmptyEncodingTokens == encoding_json_len(sheet_encoding_of(BlankCur))

\* C17 as stated: for every encoded sheet with at least one populated cell the
\* recorded final_tokens is at most the recorded original_tokens.
C17_FinalAtMostOriginal ==
    (JustEncoded /\ HasPopulatedCell(LastSheet))
        => LastMetrics.final_tokens <= LastMetrics.original_tokens

\* C17, amended: for every encoded sheet original_tokens is the length of the
\* JSON text of the address-to-value map of all populated cells, final_tokens
\* the length of the JSON text of the complete sheet encoding,
\* after_anchor_tokens is at most original_tokens, and final_tokens is at
\* least the length of the encoding with no anchors and empty maps; so
\* final_tokens exceeds original_tokens whenever the address-to-value map is
\* shorter than that empty encoding.
C17_TokenBounds ==
    JustEncoded =>
        /\ LastMetrics.original_tokens =
                cells_tokens(LastSheet, SortedSeq(1..LastSheet.max_row),
                             SortedSeq(1..LastSheet.max_column))
        /\ LastMetrics.final_tokens = encoding_json_len(LastEncoding)
        /\ LastMetrics.after_anchor_tokens <= LastMetrics.original_tokens
        /\ LastMetrics.final_tokens >= EmptyEncodingTokens
        /\ (LastMetrics.original_tokens < EmptyEncodingTokens
                => LastMetrics.final_tokens > LastMetrics.original_tokens)

\* A sheet with populated cells, anchors and a non-empty cells map whose
\* encoding is longer than its address-to-value map, and of which some
\* populated cell is not kept.
C17_Witness ==
    /\ JustEncoded /\ HasPopulatedCell(LastSheet)
    /\ LastEncoding.cells # <<>>
    /\ LastMetrics.final_tokens > LastMetrics.original_tokens
    /\ LastMetrics.after_anchor_tokens < LastMetrics.original_tokens
    /\ LastMetrics.after_anchor_tokens > 2

\* ------------------------------------------------------------------ C18
\* The rectangles of cells of S whose top left cell is p.
RectanglesAt(S, p) ==
    { R \in { (p[1]..r2) \X (p[2]..c2) :
                r2 \in { q[1] : q \in S }, c2 \in { q[2] : q \in S } } :
        R # {} /\ R \subseteq S }

RECURSIVE MinRectangles(_)
\* The least number of axis-aligned rectangles S can be partitioned into: the
\* row-major first cell of S is the top left cell of its rectangle.
MinRectangles(S) ==
    IF S = {} THEN 0
    ELSE LET p == CHOOSE x \in S : \A y \in S : x = y \/ PairLess(x, y)
             counts == { 1 + MinRectangles(S \ R) : R \in RectanglesAt(S, p) }
         IN  CHOOSE n \in counts : \A m \in counts : n <= m

\* C18 as stated: the number of ranges _merge_refs emits for a bucket is the
\* least number of axis-aligned rectangles the bucket's address set can be
\* partitioned into.
C18_MinimumRanges ==
    m_pc = "done" => Len(m_st.ranges) = MinRectangles(m_src)

\* C18, amended: every range the sweep emits starts at the row-major first
\* address of the bucket not covered by an earlier range, cannot be extended
\* by the next cell to the right of its first row, and cannot be extended by
\* the whole row below it (cells of the bucket not covered by an earlier
\* range).  The number of ranges is not always the minimum: the I-shaped
\* bucket {A1,B1,C1,B2,A3,B3,C3} ends as the four ranges A1:C1, B2:B3, A3, C3.
C18_GreedyMaximal ==
    m_pc \in {"sweep", "done"} =>
        /\ \A i \in DOMAIN m_st.ranges :
            LET b == range_to_bbox(m_st.ranges[i])
                free == m_src \ CoveredBy(SubSeq(m_st.ranges, 1, i - 1))
            IN  /\ <<b[1], b[2]>> \in free
                /\ \A q \in free : q = <<b[1], b[2]>> \/ PairLess(<<b[1], b[2]>>, q)
                /\ BoxCells(b) \subseteq free
                /\ <<b[1], b[4] + 1>> \notin free
                /\ \E c \in b[2]..b[4] : <<b[3] + 1, c>> \notin free
        /\ (m_pc = "done" /\ m_src = IShapeBucket)
                => m_st.ranges = <<RangeStr(1, 1, 1, 3), RangeStr(2, 2, 3, 2),
                                   RangeStr(3, 1, 3, 1), RangeStr(3, 3, 3, 3)>>

\* The I-shaped bucket swept to its end: more ranges than the three of the
\* partition A1:C1, B2, A3:C3.
C18_Witness ==
    /\ m_pc = "done"
    /\ m_src = IShapeBucket
    /\ Len(m_st.ranges) > MinRectangles(m_src)
    /\ MinRectangles(m_src) = Cardinality({"A1:C1", "B2", "A3:C3"})
    /\ \E i \in DOMAIN m_st.ranges :
            range_to_bbox(m_st.ranges[i])[3] > range_to_bbox(m_st.ranges[i])[1]

\* ------------------------------------------------------------------ C19
\* The addresses of a list in row-major order.
RowMajor(refs) ==
    LET coords == SortedPairs({ ref_coord(refs[i]) : i \in DOMAIN refs })
    IN  [i \in DOMAIN coords |-> CellRef(coords[i][1], coords[i][2])]

\* C19, for the Format Region Aggregator: the regions emitted for the buckets
\* of a map are those emitted when every bucket's address list is given in
\* row-major order, whatever the order of the addresses in the lists is.
C19_OrderIndependent ==
    a_pc = "done" =>
        a_st.out = aggregate_regions(a_sheet,
                        [i \in DOMAIN a_map |->
                            [k |-> a_map[i].k, v |-> RowMajor(a_map[i].v)]])

\* ------------------------------------------------------------------ C20
\* The block of the given width and height at the start cell is inside free,
\* the cells of the bucket the loop is at that are unprocessed before the step.
ValidBlock(free, start, width, height) ==
    Block(start[1], start[2], width, height) \subseteq free

\* C20: the region emitted for a start address is a block at that address,
\* of a width in 1..min(20, remaining columns) and a height in
\* 1..min(20, remaining rows), whose cells are all in the bucket and
\* unprocessed; no such block has a larger area, and none of the same area is
\* narrower; its cells become processed.  The map of the test ends as
\* "A2:B3" for the integers and "D4:E4" for the texts.
C20_MaximumArea ==
    [][ /\ (/\ a_pc = "scan" /\ a_i <= Len(a_map) /\ a_j' = a_j + 1
            /\ a_map[a_i].v[a_j] \notin a_st.processed)
            => LET start == ref_coord(a_map[a_i].v[a_j])
                   emitted == Lookup(a_st'.out, a_map[a_i].k)
                   b == range_to_bbox(emitted[Len(emitted)])
                   width == b[4] - b[2] + 1
                   height == b[3] - b[1] + 1
                   free == { ref_coord(ref) :
                                ref \in Range(a_map[a_i].v) \ a_st.processed }
                   widths == 1..Min(20, a_sheet.max_column - start[2] + 1)
                   heights == 1..Min(20, a_sheet.max_row - start[1] + 1)
               IN  /\ <<b[1], b[2]>> = start
                   /\ width \in widths /\ height \in heights
                   /\ ValidBlock(free, start, width, height)
                   /\ \A w \in widths, h \in heights :
                        ValidBlock(free, start, w, h)
                            => \/ w * h < width * height
                               \/ w * h = width * height /\ width <= w
                   /\ a_st'.processed = a_st.processed
                        \cup { CellRef(p[1], p[2]) :
                                p \in Block(start[1], start[2], width, height) }
        /\ (a_pc' = "done" /\ a_map = TestFormatMap)
            => a_st'.out =
                <<[k |-> IntegerKey, v |-> <<RangeStr(2, 1, 3, 2)>>],
                  [k |-> TextKey, v |-> <<RangeStr(4, 4, 4, 5)>>]>> ]_vars

\* The bucket A1, B1, A2: at A1 the blocks A1:A2 and A1:B1 have the same
\* area, and the narrower one is emitted, leaving B1 alone.
C20_Witness ==
    /\ a_pc = "done"
    /\ a_map = <<[k |-> IntegerKey,
                  v |-> <<CellRef(1, 1), CellRef(1, 2), CellRef(2, 1)>>]>>
    /\ a_st.out = <<[k |-> IntegerKey,
                     v |-> <<RangeStr(1, 1, 2, 1), CellRef(1, 2)>>]>>

\* ------------------------------------------------------------------ C21
\* The number of cells of the row for which P holds.
CountRow(P(_)) ==
    Cardinality({ c \in 1..f_args.sheet.max_column :
                    P(cell(f_args.sheet, f_args.row_idx, c)) })

\* C21: is_header_row returns true exactly when the row has a populated cell
\* and, of its populated cells, more than 60% are bold, or more than 60% are
\* centred, or more than 60% of its string cells are all upper case (single
\* letters included).
C21_HeaderRule ==
    f_pc = "done" =>
        LET populated == CountRow(Populated)
            bold == CountRow(LAMBDA cl : Populated(cl) /\ cl.bold)
            centered == CountRow(LAMBDA cl : Populated(cl)
                                            /\ cl.horizontal = "center")
            strings == CountRow(LAMBDA cl : Populated(cl)
                                            /\ cl.value.t = "str")
            upper == CountRow(LAMBDA cl : /\ Populated(cl)
                                          /\ cl.value.t = "str"
                                          /\ isupper(cl.value.s))
        IN  f_ret <=> /\ populated > 0
                      /\ \/ 100 * bold > 60 * populated
                         \/ 100 * centered > 60 * populated
                         \/ strings > 0 /\ 100 * upper > 60 * strings

\* ------------------------------------------------------------------ C22
\* Intersection over union of two boxes is below one half, by counting cells.
IoUBelowHalf(a, b) ==
    2 * Cardinality(BoxCells(a) \cap BoxCells(b))
        < Cardinality(BoxCells(a) \cup BoxCells(b))

\* 10 for every header row among the first three rows of the box, plus its
\* number of cells.
BoxScore(headers, b) ==
    10 * Cardinality({ r \in b[1]..b[3] : r <= b[1] + 2 /\ r \in headers })
    + Cardinality(BoxCells(b))

\* C22: on a non-empty list filter_overlapping_candidates returns a non-empty
\* list of boxes of the input in which every two boxes have IoU < 0.5; a box
\* of the highest score is kept; and every box that is not kept has
\* IoU >= 0.5 with a kept box whose score is at least its own.
C22_Suppression ==
    (f_pc = "done" /\ "candidates" \in DOMAIN f_args) =>
        LET kept == f_ret
            candidates == f_args.candidates
            headers == header_rows(f_args.sheet)
            kept_score == <<>> \o [i \in DOMAIN kept |->
                                    BoxScore(headers, kept[i])]
        IN  /\ Len(kept) >= 1
            /\ Range(kept) \subseteq Range(candidates)
            /\ \A i, j \in DOMAIN kept :
                    i # j => IoUBelowHalf(kept[i], kept[j])
            /\ \E i \in DOMAIN kept : \A j \in DOMAIN candidates :
                    BoxScore(headers, candidates[j]) <= kept_score[i]
            /\ \A b \in Range(candidates) \ Range(kept) :
                    \E i \in DOMAIN kept :
                        /\ ~IoUBelowHalf(kept[i], b)
                        /\ kept_score[i] >= BoxScore(headers, b)

\* Two boxes given with the lower score first: the second, which holds the
\* header row, is kept and the first, half of it, is discarded.
C22_Witness ==
    /\ f_pc = "done" /\ "candidates" \in DOMAIN f_args
    /\ Len(f_args.candidates) = 2 /\ Len(f_ret) = 1
    /\ f_ret[1] = f_args.candidates[2]
    /\ f_args.candidates[1] # f_args.candidates[2]
    /\ \E r \in f_ret[1][1]..f_ret[1][3] : is_header_row(f_args.sheet, r)

\* The <<row, col>> pairs of the retained window of a finished call of
\* create_inverted_index.
Retained == Range(f_args.kept_rows) \X Range(f_args.kept_cols)

IndexDone == f_pc = "done" /\ "kept_rows" \in DOMAIN f_args

\* The keys of a map under which an address is listed.
KeysOf(map, ref) ==
    { map[i].k : i \in { j \in DOMAIN map : ref \in Range(map[j].v) } }

\* The sheet without its faults.
Repaired(ws) ==
    [ws EXCEPT !.cells = [p \in DOMAIN ws.cells |->
                             [ws.cells[p] EXCEPT !.format_fault = FALSE]]]

\* C23: when format extraction fails for a retained cell during
\* create_inverted_index, the cell's address is recorded in the format map
\* under a degraded key {error: <message>}, and every other retained cell is
\* recorded in both maps exactly as it is without the fault.
C23_FaultRecorded ==
    IndexDone =>
        LET ws == f_args.sheet
            clean == create_inverted_index(Repaired(ws), f_args.kept_rows,
                                           f_args.kept_cols)
        IN  \A p \in Retained :
                LET ref == CellRef(p[1], p[2])
                IN  IF cell(ws, p[1], p[2]).format_fault
                    THEN \E key \in KeysOf(f_ret[2], ref) :
                            DOMAIN key = {"error"}
                    ELSE /\ KeysOf(f_ret[1], ref) = KeysOf(clean[1], ref)
                         /\ KeysOf(f_ret[2], ref) = KeysOf(clean[2], ref)

\* The strings a value is indexed under: its stringification, and nothing for
\* None.
Stringified(value) == IF value.t = "none" THEN {} ELSE {str(value)}

\* C24: a retained cell inside a merge range is indexed under the stringified
\* value of the range's start cell and under no other value, whether or not
\* the start cell is retained, and its format key has merged = true and the
\* string of the range; a retained cell in no merge range is indexed under
\* its own value and its format key has merged = false.
C24_MergeResolution ==
    IndexDone =>
        \A p \in Retained :
            LET ws == f_args.sheet
                ref == CellRef(p[1], p[2])
                ranges == { m \in ws.merged : InRange(p[1], p[2], m) }
                resolved ==
                    IF ranges = {} THEN cell(ws, p[1], p[2]).value
                    ELSE LET m == CHOOSE x \in ranges : TRUE
                         IN  cell(ws, m.r1, m.c1).value
            IN  /\ KeysOf(f_ret[1], ref) = Stringified(resolved)
                /\ \A key \in KeysOf(f_ret[2], ref) :
                        IF ranges = {} THEN ~key.merged
                        ELSE LET m == CHOOSE x \in ranges : TRUE
                             IN  /\ key.merged
                                 /\ key.merged_range =
                                        RangeStr(m.r1, m.c1, m.r2, m.c2)
                /\ ~cell(ws, p[1], p[2]).format_fault
                        => Cardinality(KeysOf(f_ret[2], ref)) = 1

\* Column B of a sheet whose bold header row is merged into A1:B1 is
\* retained without column A: B1 is listed under the header text of A1.
C24_Witness ==
    /\ IndexDone
    /\ f_args.sheet.merged = {[r1 |-> 1, c1 |-> 1, r2 |-> 1, c2 |-> 2]}
    /\ f_args.kept_cols = <<2>>
    /\ 1 \in Range(f_args.kept_rows)
    /\ cell(f_args.sheet, 1, 1).value = StrValue(S_ID)
    /\ cell(f_args.sheet, 1, 2).value = NoneValue
    /\ KeysOf(f_ret[1], CellRef(1, 2)) = {S_ID}
    /\ \E key \in KeysOf(f_ret[2], CellRef(1, 2)) :
            key.merged /\ key.merged_range = RangeStr(1, 1, 1, 2)

\* C25: for anchors within [1, bound] and k >= 0 the expanded set is the
\* union over the anchors a of the intervals [max(1, a - k), min(bound, a + k)],
\* returned in ascending order; it contains every anchor, and with k = 0 it
\* is the anchor set.
C25_Neighborhood ==
    (f_pc = "done" /\ "max_index" \in DOMAIN f_args) =>
        LET anchors == Range(f_args.indices)
            n == f_args.k
            bound == f_args.max_index
            lo(a) == IF a - n < 1 THEN 1 ELSE a - n
            hi(a) == IF a + n > bound THEN bound ELSE a + n
        IN  /\ Range(f_ret) =
                    { i \in 1..bound :
                        \E a \in anchors : lo(a) <= i /\ i <= hi(a) }
            /\ \A i, j \in DOMAIN f_ret : i < j => f_ret[i] < f_ret[j]
            /\ anchors \subseteq Range(f_ret)
            /\ n = 0 => Range(f_ret) = anchors

\* Anchors 1 and 4 of four indices with k = 2: both intervals are clipped
\* and their union is 1..4.
C25_Witness ==
    /\ f_pc = "done" /\ "max_index" \in DOMAIN f_args
    /\ f_args.indices = <<1, 4>>
    /\ f_args.k = 2 /\ f_args.max_index = 4
    /\ f_ret = <<1, 2, 3, 4>>

\* C26: the rows (columns) reported in structural_anchors of an encoded
\* sheet are exactly the top and bottom rows (left and right columns) of the
\* boxes that survive the filter and the suppression; an index that is only
\* within distance k of such a bound is not reported.
C26_AnchorsAreBounds ==
    JustEncoded =>
        LET boxes == Range(cur.candidates)
            reported == LastEncoding.structural_anchors
        IN  /\ Range(reported.rows) = UNION { {b[1], b[3]} : b \in boxes }
            /\ { column_index_from_string(reported.columns[i]) :
                    i \in DOMAIN reported.columns }
                    = UNION { {b[2], b[4]} : b \in boxes }

NonHeaderCandidateRows(ws) ==
    { r \in 1..ws.max_row :
        /\ ~is_header_row(ws, r)
        /\ \/ r > 1 /\ row_profile(ws, r) # row_profile(ws, r - 1)
           \/ r < ws.max_row /\ row_profile(ws, r) # row_profile(ws, r + 1) }

\* Some header row lies strictly between two non-header candidate rows.
InteriorHeader(ws) ==
    \E r1, r2 \in NonHeaderCandidateRows(ws) :
        \E h \in (r1 + 1)..(r2 - 1) : is_header_row(ws, h)

\* C28: every box that survives filter_unreasonable_candidates has a header
\* row strictly between its top and bottom row, so it spans at least three
\* rows, and no bound of a box is a header row; a sheet in which no header row
\* lies strictly between two non-header candidate rows has empty row and
\* column anchors.
C28_InteriorHeader ==
    /\ pc \in {"suppress", "derive"} =>
        \A b \in Range(cur.candidates) :
            /\ \E h \in (b[1] + 1)..(b[3] - 1) : is_header_row(sheet, h)
            /\ b[3] - b[1] + 1 >= 3
            /\ ~is_header_row(sheet, b[1])
            /\ ~is_header_row(sheet, b[3])
    /\ pc \in {"extract", "index", "merge", "formats", "assemble"} =>
        /\ \A r \in Range(cur.boundary_rows) : ~is_header_row(sheet, r)
        /\ ~InteriorHeader(sheet) =>
                cur.row_anchors = <<>> /\ cur.col_anchors = <<>>
    /\ (JustEncoded /\ ~InteriorHeader(LastSheet)) =>
        /\ LastEncoding.structural_anchors.rows = <<>>
        /\ LastEncoding.structural_anchors.columns = <<>>

\* The filter has kept a box from row 1 to row 3 of a sheet whose row 2 is a
\* header row.
C28_Witness ==
    /\ pc = "suppress"
    /\ \E b \in Range(cur.candidates) : b[1] = 1 /\ b[3] = 3
    /\ is_header_row(sheet, 2)

\* The value of the start cell of the merge range that holds cell p, and the
\* cell's own value when no range holds it.
ResolvedValue(ws, p) ==
    LET ranges == { m \in ws.merged : InRange(p[1], p[2], m) }
    IN  IF ranges = {} THEN ws.cells[p].value
        ELSE LET m == CHOOSE x \in ranges : TRUE
             IN  ws.cells[<<m.r1, m.c1>>].value

\* The <<key index, range index>> pairs of the ranges of a map that cover p.
CoveringRanges(d, p) ==
    { ij \in UNION { {i} \X DOMAIN d[i].v : i \in DOMAIN d } :
        p \in RangeCells(d[ij[1]].v[ij[2]]) }

\* C29: the cells covered by the ranges of the `cells` map of an encoded
\* sheet are exactly the cells of retained rows x retained columns whose
\* resolved value is not null and whose stringified value is not blank; each
\* of them is covered by exactly one range under exactly one key, and no cell
\* outside the retained window is covered.
C29_CellsCoverage ==
    JustEncoded =>
        LET cells == LastEncoding.cells
            window == Range(cur.kept_rows) \X Range(cur.kept_cols)
            covered == CoveredByMap(cells)
        IN  /\ covered =
                    { p \in window :
                        LET value == ResolvedValue(LastSheet, p)
                        IN  /\ value.t # "none"
                            /\ \E i \in DOMAIN str(value) :
                                    str(value)[i] \notin {" ", "\t", "\n"} }
            /\ covered \subseteq window
            /\ \A p \in covered : Cardinality(CoveringRanges(cells, p)) = 1
            /\ \A i, j \in DOMAIN cells : cells[i].k = cells[j].k => i = j

\* The sheet with the blank text in A3 is encoded with A3 in the retained
\* window: B3 is covered and A3 is not.
C29_Witness ==
    /\ JustEncoded
    /\ LastSheet = BlankTextSheet
    /\ <<3, 1>> \in Range(cur.kept_rows) \X Range(cur.kept_cols)
    /\ <<3, 2>> \in CoveredByMap(LastEncoding.cells)
    /\ <<3, 1>> \notin CoveredByMap(LastEncoding.cells)

CompressDone == f_pc = "done" /\ "rows" \in DOMAIN f_args

\* s is t with some of its items left out.
Subsequence(s, t) ==
    \E keep \in SUBSET DOMAIN t :
        s = SelectSeq(t, LAMBDA x : \E i \in keep : t[i] = x)

\* C30: compress_homogeneous_regions keeps a row exactly when it varies over
\* the columns given and a column exactly when it varies over the rows given
\* (not over those that are left); both results are subsequences of the
\* inputs; given at most one column it drops every row, given at most one row
\* it drops every column, and the `cells` map built from the result is then
\* empty.
C30_DegenerateWindow ==
    CompressDone =>
        LET ws == f_args.sheet
            rows == f_args.rows
            cols == f_args.cols
        IN  /\ Range(f_ret[1]) = { r \in Range(rows) : RowVaries(ws, r, cols) }
            /\ Range(f_ret[2]) = { c \in Range(cols) : ColVaries(ws, c, rows) }
            /\ Subsequence(f_ret[1], rows)
            /\ Subsequence(f_ret[2], cols)
            /\ Len(cols) <= 1 => f_ret[1] = <<>>
            /\ Len(rows) <= 1 => f_ret[2] = <<>>
            /\ (Len(cols) <= 1 \/ Len(rows) <= 1) =>
                    create_inverted_index_translation(
                        create_inverted_index(ws, f_ret[1], f_ret[2])[1]) = <<>>

\* Given both rows and column A alone, every row is dropped although column
\* A varies over the rows and is kept.
C30_Witness ==
    /\ CompressDone
    /\ f_args.rows = <<1, 2>> /\ f_args.cols = <<1>>
    /\ f_ret = <<<<>>, <<1>>>>
    /\ cell(f_args.sheet, 1, 1).value # cell(f_args.sheet, 2, 1).value

====
